---- MODULE Spec2Model ----
(***************************************************************************)
(* Frunna: the weekly plan synthesis pipeline of App.tsx.                  *)
(*                                                                         *)
(* Strings are TLA+ strings; substring tests, trimming, lower-casing and   *)
(* splitting are computed character by character as the JavaScript         *)
(* built-ins do.  Array indexes are 1-based here, and 0 stands for the -1  *)
(* that findIndex returns when nothing matches.                            *)
(*                                                                         *)
(* A model response ("text") is a record                                   *)
(*   [json  |-> <<>> or <<object>>,  the value JSON.parse yields for the   *)
(*                                   outermost {...} of the text, if any   *)
(*    lines |-> <<line, ...>>]       the text split at newlines            *)
(***************************************************************************)
EXTENDS Integers, Sequences, FiniteSets, TLC

(***************************************************************************)
(* Bounds                                                                  *)
(***************************************************************************)
\* weeks of one plan (the app offers 8, 10 and 12)
MaxWeeks == 2
\* rows of a table handed to clampWeekToRunDayCap in SpecClamp
MaxRows == 3
\* entries of the days array handed to parseWeekJsonFromText in SpecCalls
MaxDays == 3
\* rows of a table handed to enforceExpectedWeek in SpecCalls
MaxTableRows == 2
\* rows of the first table handed to summarizeWeekForHistory in SpecCalls
MaxSummaryRows == 9
\* rows of a table handed to toCalendarEvents in SpecCalls
MaxEventRows == 2

\* the plans a session generates
MaxPlans == 2
\* the keys a session saves check-ins under
MaxCheckins == 2
\* the calendar syncs of a session
MaxSyncs == 2

(***************************************************************************)
(* JavaScript string built-ins                                             *)
(***************************************************************************)
UpperToLower ==
  [A |-> "a", B |-> "b", C |-> "c", D |-> "d", E |-> "e", F |-> "f", G |-> "g",
   H |-> "h", I |-> "i", J |-> "j", K |-> "k", L |-> "l", M |-> "m", N |-> "n",
   O |-> "o", P |-> "p", Q |-> "q", R |-> "r", S |-> "s", T |-> "t", U |-> "u",
   V |-> "v", W |-> "w", X |-> "x", Y |-> "y", Z |-> "z"]

RECURSIVE toLowerCase(_)
toLowerCase(s) ==
  IF Len(s) = 0 THEN ""
  ELSE LET c == SubSeq(s, 1, 1)
       IN (IF c \in DOMAIN UpperToLower THEN UpperToLower[c] ELSE c)
            \o toLowerCase(SubSeq(s, 2, Len(s)))

WhiteSpace == {" ", "\t", "\n", "\r"}

RECURSIVE trimStart(_)
trimStart(s) ==
  IF Len(s) > 0 /\ SubSeq(s, 1, 1) \in WhiteSpace
  THEN trimStart(SubSeq(s, 2, Len(s)))
  ELSE s

RECURSIVE trimEnd(_)
trimEnd(s) ==
  IF Len(s) > 0 /\ SubSeq(s, Len(s), Len(s)) \in WhiteSpace
  THEN trimEnd(SubSeq(s, 1, Len(s) - 1))
  ELSE s

trim(s) == trimEnd(trimStart(s))

includes(s, p) ==
  \E i \in 1..(Len(s) - Len(p) + 1) : SubSeq(s, i, i + Len(p) - 1) = p

startsWith(s, p) == Len(s) >= Len(p) /\ SubSeq(s, 1, Len(p)) = p

endsWith(s, p) == Len(s) >= Len(p) /\ SubSeq(s, Len(s) - Len(p) + 1, Len(s)) = p

\* position of the first occurrence of the one-character string c, 0 if none
RECURSIVE indexOfChar(_, _, _)
indexOfChar(s, c, from) ==
  IF from > Len(s) THEN 0
  ELSE IF SubSeq(s, from, from) = c THEN from
  ELSE indexOfChar(s, c, from + 1)

\* s.split(c) for a one-character separator
RECURSIVE split(_, _)
split(s, c) ==
  LET at == indexOfChar(s, c, 1)
  IN IF at = 0 THEN <<s>>
     ELSE <<SubSeq(s, 1, at - 1)>> \o split(SubSeq(s, at + 1, Len(s)), c)

\* parts.join(sep)
RECURSIVE join(_, _)
join(parts, sep) ==
  IF Len(parts) = 0 THEN ""
  ELSE IF Len(parts) = 1 THEN parts[1]
  ELSE parts[1] \o sep \o join(Tail(parts), sep)

Digits == [c \in {"0", "1", "2", "3", "4", "5", "6", "7", "8", "9"} |->
             CASE c = "0" -> 0 [] c = "1" -> 1 [] c = "2" -> 2 [] c = "3" -> 3
               [] c = "4" -> 4 [] c = "5" -> 5 [] c = "6" -> 6 [] c = "7" -> 7
               [] c = "8" -> 8 [] c = "9" -> 9]

\* the value of the longest prefix of decimal digits of s, <<>> when there
\* is none (Number.parseInt yields NaN)
RECURSIVE parseDigits(_, _, _)
parseDigits(s, acc, seen) ==
  IF Len(s) > 0 /\ SubSeq(s, 1, 1) \in DOMAIN Digits
  THEN parseDigits(SubSeq(s, 2, Len(s)), 10 * acc + Digits[SubSeq(s, 1, 1)], TRUE)
  ELSE IF seen THEN <<acc>> ELSE <<>>

parseInt(s) ==
  LET t == trimStart(s)
  IN IF startsWith(t, "-")
     THEN LET m == parseDigits(SubSeq(t, 2, Len(t)), 0, FALSE)
          IN IF m = <<>> THEN <<>> ELSE <<0 - m[1]>>
     ELSE IF startsWith(t, "+") THEN parseDigits(SubSeq(t, 2, Len(t)), 0, FALSE)
     ELSE parseDigits(t, 0, FALSE)

\* array.findIndex(pred), given the set of the indexes that satisfy pred:
\* the least of them, 0 if there is none
findIndex(hits) ==
  IF hits = {} THEN 0 ELSE CHOOSE i \in hits : \A j \in hits : i <= j

\* array.map(...): the values are computed once, when the array is built
map(f) == SubSeq(f, 1, Len(f))

\* the value of an array element that was never set
undefined == "\tundefined"

\* array[index] = value: an assignment past the end leaves holes before it
setAt(array, index, value) ==
  IF index <= Len(array) THEN [array EXCEPT ![index] = value]
  ELSE array \o map([i \in 1..(index - Len(array) - 1) |-> undefined]) \o <<value>>

(***************************************************************************)
(* Constants of App.tsx                                                    *)
(***************************************************************************)
WEEKDAY_NAMES ==
  <<"Monday", "Tuesday", "Wednesday", "Thursday", "Friday", "Saturday", "Sunday">>

DAY_INDEX ==
  [monday |-> 0, mon |-> 0, tuesday |-> 1, tue |-> 1, tues |-> 1,
   wednesday |-> 2, wed |-> 2, thursday |-> 3, thu |-> 3, thurs |-> 3,
   friday |-> 4, fri |-> 4, saturday |-> 5, sat |-> 5, sunday |-> 6, sun |-> 6]

\* the lower-case keys DAY_INDEX inherits from Object.prototype: their
\* values are no numbers
InheritedKeys == {"constructor", "__proto__"}

(***************************************************************************)
(* Response parser                                                         *)
(***************************************************************************)
parseCells(line) ==
  LET cells == split(SubSeq(line, 2, Len(line) - 1), "|")
  IN map([i \in 1..Len(cells) |-> trim(cells[i])])

isPipeLine(line) == startsWith(line, "|") /\ endsWith(line, "|")

\* a long row cut to the header width
repairRow_truncating(row, width) ==
  IF Len(row) = width THEN row
  ELSE IF Len(row) > width THEN SubSeq(row, 1, width)
       ELSE row \o map([i \in 1..(width - Len(row)) |-> ""])

\* one data row brought to the header width
repairRow(row, width) ==
  IF Len(row) = width THEN row
  ELSE IF Len(row) > width
       THEN SubSeq(row, 1, width - 1) \o <<join(SubSeq(row, width, Len(row)), " | ")>>
       ELSE row \o map([i \in 1..(width - Len(row)) |-> ""])

\* the table of one block of consecutive pipe lines, <<>> if it is none
blockToTables(block) ==
  IF Len(block) < 3 \/ ~includes(block[2], "---") THEN <<>>
  ELSE LET headers == parseCells(block[1])
           width == Len(headers)
           isWide(row) == Len(row) = width
           rows == SelectSeq(map([i \in 1..(Len(block) - 2) |->
                             repairRow(parseCells(block[i + 2]), width)]), isWide)
       IN IF Len(rows) > 0 THEN <<[headers |-> headers, rows |-> rows]>> ELSE <<>>

\* the end of the run of pipe lines that starts at index
RECURSIVE blockEnd(_, _)
blockEnd(rawLines, index) ==
  IF index <= Len(rawLines) /\ isPipeLine(rawLines[index])
  THEN blockEnd(rawLines, index + 1)
  ELSE index

RECURSIVE scanTables(_, _)
scanTables(rawLines, index) ==
  IF index > Len(rawLines) THEN <<>>
  ELSE IF ~isPipeLine(rawLines[index]) THEN scanTables(rawLines, index + 1)
  ELSE LET next == blockEnd(rawLines, index)
       IN blockToTables(SubSeq(rawLines, index, next - 1)) \o scanTables(rawLines, next)

parseMarkdownTables(text) ==
  scanTables(map([i \in 1..Len(text.lines) |-> trim(text.lines[i])]), 1)

\* the lookup without the lower-casing
normalizeDayName_caseSensitive(value) ==
  LET normalized == trim(value)
  IN IF normalized \in DOMAIN DAY_INDEX
     THEN <<WEEKDAY_NAMES[DAY_INDEX[normalized] + 1]>>
     ELSE <<>>

\* the canonical weekday name of value, <<>> for null
normalizeDayName(value) ==
  LET normalized == toLowerCase(trim(value))
  IN IF normalized \in DOMAIN DAY_INDEX
     THEN <<WEEKDAY_NAMES[DAY_INDEX[normalized] + 1]>>
     ELSE <<>>

orDefault(value, default) == IF trim(value) = "" THEN default ELSE trim(value)

\* <<>> for null, else <<StructuredPlanWeek>>.  An absent string field of the
\* JSON object is "", an absent week is <<>>.
parseWeekJsonFromText(text, expectedWeek) ==
  IF text.json = <<>> THEN <<>>
  ELSE LET parsed == text.json[1]
       IN IF ~parsed.daysIsArray THEN <<>>
          ELSE LET names == map([i \in 1..Len(parsed.days) |->
                              normalizeDayName(parsed.days[i].day)])
                   first(day) ==
                     LET hits == {i \in 1..Len(parsed.days) : names[i] = <<day>>}
                     IN IF hits = {} THEN 0
                        ELSE CHOOSE i \in hits : \A j \in hits : i <= j
                   dayOf(day) ==
                     IF first(day) = 0
                     THEN [day |-> day, workoutType |-> "Rest Day",
                           details |-> "Recovery / mobility",
                           rationale |-> "Load management"]
                     ELSE LET entry == parsed.days[first(day)]
                          IN [day |-> day,
                              workoutType |-> orDefault(entry.workoutType, "Rest Day"),
                              details |-> orDefault(entry.details, "Recovery / mobility"),
                              rationale |-> orDefault(entry.rationale, "Load management")]
               IN <<[week |-> IF parsed.week = <<>> THEN expectedWeek ELSE parsed.week[1],
                     verdict |-> orDefault(parsed.verdict, "Maintenance"),
                     reasoning |-> orDefault(parsed.reasoning, "Balanced load and recovery."),
                     days |-> map([d \in 1..7 |-> dayOf(WEEKDAY_NAMES[d])])]>>

(***************************************************************************)
(* Table normalizer                                                        *)
(***************************************************************************)
weekLabel(n) == "Week " \o ToString(n)

structuredWeekToTable(weekPlan) ==
  [headers |-> <<"Week", "Day", "Workout Type", "Details (Distance/Pace/Zone)", "Rationale">>,
   rows |-> map([d \in 1..Len(weekPlan.days) |->
               <<weekLabel(weekPlan.week), weekPlan.days[d].day,
                 weekPlan.days[d].workoutType, weekPlan.days[d].details,
                 weekPlan.days[d].rationale>>])]

\* the header test without the lower-casing
isWeekHeader_caseSensitive(header) == header = "week"

isWeekHeader(header) == toLowerCase(header) = "week"
isDayHeader(header) == toLowerCase(header) = "day"
isWorkoutHeader(header) == includes(toLowerCase(header), "workout")
isDetailsHeader(header) == includes(toLowerCase(header), "details")
isRationaleHeader(header) == includes(toLowerCase(header), "rationale")

weekIndexOf(headers) == findIndex({i \in 1..Len(headers) : isWeekHeader(headers[i])})
dayIndexOf(headers) == findIndex({i \in 1..Len(headers) : isDayHeader(headers[i])})
workoutIndexOf(headers) == findIndex({i \in 1..Len(headers) : isWorkoutHeader(headers[i])})
detailsIndexOf(headers) == findIndex({i \in 1..Len(headers) : isDetailsHeader(headers[i])})
rationaleIndexOf(headers) == findIndex({i \in 1..Len(headers) : isRationaleHeader(headers[i])})

enforceExpectedWeek(tables, weekNumber) ==
  map([t \in 1..Len(tables) |->
     LET table == tables[t]
         weekIndex == weekIndexOf(table.headers)
     IN IF weekIndex = 0
        THEN [headers |-> <<"Week">> \o table.headers,
              rows |-> map([r \in 1..Len(table.rows) |->
                          <<weekLabel(weekNumber)>> \o table.rows[r]])]
        ELSE [headers |-> table.headers,
              rows |-> map([r \in 1..Len(table.rows) |->
                          setAt(table.rows[r], weekIndex, weekLabel(weekNumber))])]])

(***************************************************************************)
(* Run-day constraint enforcer                                             *)
(***************************************************************************)
\* row[index] ?? default
cell(row, index, default) ==
  IF index \in 1..Len(row) /\ row[index] # undefined THEN row[index] ELSE default

isRestLikeWorkout(workoutType) ==
  LET normalized == toLowerCase(workoutType)
  IN includes(normalized, "rest") \/ includes(normalized, "off")

parseRunDayCap(value) ==
  LET parsed == parseInt(trim(value))
  IN IF parsed = <<>> THEN 4
     ELSE IF parsed[1] < 1 THEN 1
     ELSE IF parsed[1] > 7 THEN 7
     ELSE parsed[1]

\* DAY_INDEX[name] ?? default, for a name that is no inherited key
dayOrderOf(name, default) == IF name \in DOMAIN DAY_INDEX THEN DAY_INDEX[name] ELSE default

\* the quality pattern without its tempo alternative
isQuality_withoutTempo(workout) ==
  LET w == toLowerCase(workout)
  IN \/ includes(w, "interval") \/ includes(w, "threshold")
     \/ includes(w, "hill") \/ includes(w, "speed")

isQuality(workout) ==
  LET w == toLowerCase(workout)
  IN \/ includes(w, "interval") \/ includes(w, "tempo") \/ includes(w, "threshold")
     \/ includes(w, "hill") \/ includes(w, "speed")

\* one hundred times the score of the row at 1-based position idx
scoreOf(row, idx, dayIndex, workoutIndex, longRunDay) ==
  LET workout == cell(row, workoutIndex, "")
      dayOrder == dayOrderOf(toLowerCase(cell(row, dayIndex, "")), 7)
      longRunDayIndex == dayOrderOf(toLowerCase(longRunDay), 6)
      isLong == includes(toLowerCase(workout), "long")
      isLongOnPreferredDay == isLong /\ dayOrder = longRunDayIndex
  IN (IF isLongOnPreferredDay THEN 10000 ELSE 0)
       + (IF isQuality(workout) THEN 5000 ELSE 0)
       + (IF isLong THEN 2500 ELSE 0)
       - dayOrder * 10 - (idx - 1)

\* scoredRows.sort(descending).slice(0, runDayCap): the sort is stable, so
\* rows of equal score keep their index order
topScored(active, scoredRows, runDayCap) ==
  LET before(j, i) ==
        scoredRows[j] > scoredRows[i] \/ (scoredRows[j] = scoredRows[i] /\ j < i)
  IN {i \in active : Cardinality({j \in active : before(j, i)}) < runDayCap}

keepIndexes(table, dayIndex, workoutIndex, runDayCap, longRunDay) ==
  LET active == {i \in 1..Len(table.rows) :
                   ~isRestLikeWorkout(cell(table.rows[i], workoutIndex, ""))}
  IN topScored(active,
               map([i \in 1..Len(table.rows) |->
                      scoreOf(table.rows[i], i, dayIndex, workoutIndex, longRunDay)]),
               runDayCap)

demoteRow(row, workoutIndex, detailsIndex, rationaleIndex, runDayCap) ==
  LET r1 == setAt(row, workoutIndex, "Rest Day")
      r2 == IF detailsIndex # 0
            THEN setAt(r1, detailsIndex, "Recovery / optional mobility")
            ELSE r1
  IN IF rationaleIndex # 0
     THEN setAt(r2, rationaleIndex,
                "Respect " \o ToString(runDayCap) \o " training days/week")
     ELSE r2

\* lines 673-689: the rows outside keep that are not rest-like are demoted
demoteOthers(table, keep, workoutIndex, detailsIndex, rationaleIndex, runDayCap) ==
  [headers |-> table.headers,
   rows |-> map([i \in 1..Len(table.rows) |->
               IF \/ i \in keep
                  \/ isRestLikeWorkout(cell(table.rows[i], workoutIndex, ""))
               THEN table.rows[i]
               ELSE demoteRow(table.rows[i], workoutIndex, detailsIndex,
                              rationaleIndex, runDayCap)])]

\* the rest-like rows not filtered out before the count and the scoring
clampColumns_countingRestRows(table, dayIndex, workoutIndex, detailsIndex, rationaleIndex, runDayCap, longRunDay) ==
  IF dayIndex = 0 \/ workoutIndex = 0 THEN table
  ELSE IF Len(table.rows) <= runDayCap THEN table
  ELSE demoteOthers(table,
                    topScored(1..Len(table.rows),
                              map([i \in 1..Len(table.rows) |->
                                     scoreOf(table.rows[i], i, dayIndex, workoutIndex, longRunDay)]),
                              runDayCap),
                    workoutIndex, detailsIndex, rationaleIndex, runDayCap)

clampColumns(table, dayIndex, workoutIndex, detailsIndex, rationaleIndex, runDayCap, longRunDay) ==
  LET activeCount == Cardinality({i \in 1..Len(table.rows) :
                        ~isRestLikeWorkout(cell(table.rows[i], workoutIndex, ""))})
  IN IF dayIndex = 0 \/ workoutIndex = 0 THEN table
     ELSE IF activeCount <= runDayCap THEN table
     ELSE demoteOthers(table,
                       keepIndexes(table, dayIndex, workoutIndex, runDayCap, longRunDay),
                       workoutIndex, detailsIndex, rationaleIndex, runDayCap)

clampTable(table, runDayCap, longRunDay) ==
  clampColumns(table,
               dayIndexOf(table.headers),
               workoutIndexOf(table.headers),
               detailsIndexOf(table.headers),
               rationaleIndexOf(table.headers),
               runDayCap, longRunDay)

\* line 661: the day cell is an inherited key of DAY_INDEX, dayOrder is an
\* object or a function and the score of the row is NaN
hasNaNScore(row, dayIndex) == toLowerCase(cell(row, dayIndex, "")) \in InheritedKeys

\* The tables the call can return for table.  With a NaN score the
\* comparator of line 670 is inconsistent and the order after the sort is
\* implementation-defined: any runDayCap of the scored rows can be kept.
clampTableOutcomes(table, runDayCap, longRunDay) ==
  LET dayIndex == dayIndexOf(table.headers)
      workoutIndex == workoutIndexOf(table.headers)
      active == {i \in 1..Len(table.rows) :
                   ~isRestLikeWorkout(cell(table.rows[i], workoutIndex, ""))}
  IN IF /\ dayIndex # 0 /\ workoutIndex # 0
        /\ Cardinality(active) > runDayCap
        /\ \E i \in active : hasNaNScore(table.rows[i], dayIndex)
     THEN {demoteOthers(table, keep, workoutIndex, detailsIndexOf(table.headers),
                        rationaleIndexOf(table.headers), runDayCap) :
             keep \in {k \in SUBSET active : Cardinality(k) = runDayCap}}
     ELSE {clampTable(table, runDayCap, longRunDay)}

\* the arrays the call can return
RECURSIVE clampWeekToRunDayCap(_, _, _)
clampWeekToRunDayCap(tables, runDayCap, longRunDay) ==
  IF Len(tables) = 0 THEN {<<>>}
  ELSE {<<first>> \o rest :
          first \in clampTableOutcomes(tables[1], runDayCap, longRunDay),
          rest \in clampWeekToRunDayCap(Tail(tables), runDayCap, longRunDay)}

countPlannedRunDays(tables) ==
  LET runDaysOf(table) ==
        LET dayIndex == dayIndexOf(table.headers)
            workoutIndex == workoutIndexOf(table.headers)
        IN IF dayIndex = 0 \/ workoutIndex = 0 THEN {}
           ELSE {toLowerCase(trim(cell(table.rows[i], dayIndex, ""))) :
                   i \in {j \in 1..Len(table.rows) :
                            /\ trim(cell(table.rows[j], dayIndex, "")) # ""
                            /\ ~isRestLikeWorkout(cell(table.rows[j], workoutIndex, ""))}}
  IN Cardinality(UNION {runDaysOf(tables[t]) : t \in 1..Len(tables)})

(***************************************************************************)
(* History summarizer                                                      *)
(***************************************************************************)
summaryLinesOf(table, weekNumber) ==
  LET weekIndex == weekIndexOf(table.headers)
      dayIndex == dayIndexOf(table.headers)
      workoutIndex == workoutIndexOf(table.headers)
      detailsIndex == detailsIndexOf(table.headers)
      belongs(row) ==
        ~(/\ weekIndex # 0
          /\ cell(row, weekIndex, "") # ""
          /\ ~includes(toLowerCase(row[weekIndex]), toLowerCase(weekLabel(weekNumber))))
      line(row) ==
        LET day == IF dayIndex = 0 THEN "Day" ELSE cell(row, dayIndex, "Day")
            workout == IF workoutIndex = 0 THEN "Run" ELSE cell(row, workoutIndex, "Run")
            details == IF detailsIndex = 0 THEN "" ELSE cell(row, detailsIndex, "")
        IN "- " \o day \o ": " \o workout
             \o (IF details # "" THEN " (" \o details \o ")" ELSE "")
      kept == SelectSeq(table.rows, belongs)
  IN map([i \in 1..Len(kept) |-> line(kept[i])])

RECURSIVE allSummaryLines(_, _)
allSummaryLines(tables, weekNumber) ==
  IF Len(tables) = 0 THEN <<>>
  ELSE summaryLinesOf(tables[1], weekNumber) \o allSummaryLines(Tail(tables), weekNumber)

\* the digest without the slice to seven lines
summarizeWeekForHistory_unbounded(tables, weekNumber) ==
  join(<<weekLabel(weekNumber) \o " Summary:">> \o allSummaryLines(tables, weekNumber), "\n")

summarizeWeekForHistory(tables, weekNumber) ==
  LET summaryLines == allSummaryLines(tables, weekNumber)
      first7 == SubSeq(summaryLines, 1, IF Len(summaryLines) < 7 THEN Len(summaryLines) ELSE 7)
  IN join(<<weekLabel(weekNumber) \o " Summary:">> \o first7, "\n")

(***************************************************************************)
(* Calendar event deriver                                                  *)
(*                                                                         *)
(* A Date is an instant, the minutes since 1970-01-01T00:00Z.  The local   *)
(* zone is tz minutes east of UTC, without daylight saving.  An ISO string *)
(* is the record of its UTC day (days since 1970-01-01) and minute.        *)
(***************************************************************************)
MinutesPerDay == 1440

\* the local calendar day of instant t
localDay(t, tz) == (t + tz) \div MinutesPerDay

\* Date.prototype.getDay: 0 is Sunday; 1970-01-01 was a Thursday
getDay(t, tz) == (localDay(t, tz) + 4) % 7

\* date.setDate(date.getDate() + days)
addDays(t, days) == t + days * MinutesPerDay

\* date.setHours(hours, 0, 0, 0)
setHours(t, hours, tz) == localDay(t, tz) * MinutesPerDay + hours * 60 - tz

\* new Date(iso)
parseIso(iso) == iso.day * MinutesPerDay + iso.minute

toISOString(t) == [day |-> t \div MinutesPerDay, minute |-> t % MinutesPerDay]

nextMonday(now, tz) ==
  LET start == localDay(now, tz) * MinutesPerDay - tz
      weekday == getDay(start, tz)
      daysUntilMonday == IF (8 - weekday) % 7 = 0 THEN 7 ELSE (8 - weekday) % 7
  IN addDays(start, daysUntilMonday)

\* the digits matched by /week\s+(\d+)/i at position i of title, <<>> if
\* the pattern does not match there
weekMatchAt(title, i) ==
  IF i + 3 > Len(title) \/ toLowerCase(SubSeq(title, i, i + 3)) # "week" THEN <<>>
  ELSE LET rest == SubSeq(title, i + 4, Len(title))
           digits == trimStart(rest)
       IN IF Len(digits) = Len(rest) THEN <<>> ELSE parseDigits(digits, 0, FALSE)

extractWeekNumber(title, fallback) ==
  LET at == findIndex({i \in 1..Len(title) : weekMatchAt(title, i) # <<>>})
  IN IF at = 0 THEN fallback ELSE weekMatchAt(title, at)[1]

\* the tests in another order: interval, tempo and speed before long
estimatedDurationMinutes_qualityFirst(workoutType) ==
  LET normalized == toLowerCase(workoutType)
  IN IF \/ includes(normalized, "interval") \/ includes(normalized, "tempo")
        \/ includes(normalized, "speed") THEN 70
     ELSE IF includes(normalized, "long") THEN 90
     ELSE IF includes(normalized, "recovery") \/ includes(normalized, "easy") THEN 50
     ELSE IF includes(normalized, "strength") THEN 45
     ELSE 60

estimatedDurationMinutes(workoutType) ==
  LET normalized == toLowerCase(workoutType)
  IN IF includes(normalized, "long") THEN 90
     ELSE IF \/ includes(normalized, "interval") \/ includes(normalized, "tempo")
             \/ includes(normalized, "speed") THEN 70
     ELSE IF includes(normalized, "recovery") \/ includes(normalized, "easy") THEN 50
     ELSE IF includes(normalized, "strength") THEN 45
     ELSE 60

\* DAY_INDEX[dayLabel]
lookupDayIndex(dayLabel) ==
  IF dayLabel \in DOMAIN DAY_INDEX THEN [kind |-> "number", value |-> DAY_INDEX[dayLabel]]
  ELSE IF dayLabel \in InheritedKeys THEN [kind |-> "object", value |-> 0]
  ELSE [kind |-> "undefined", value |-> 0]

\* the rows of table that reach events.push, in row order
pushedRows(table, dayIndex, workoutTypeIndex) ==
  LET reaches(row) ==
        /\ lookupDayIndex(toLowerCase(trim(cell(row, dayIndex, "")))).kind # "undefined"
        /\ ~isRestLikeWorkout(cell(row, workoutTypeIndex, "Run"))
  IN SelectSeq(table.rows, reaches)

\* the event of one row whose day is a weekday
eventOf(row, weekNumber, dayOffset, indexes, planStartMonday, tz) ==
  LET workoutType == cell(row, indexes.workoutType, "Run")
      details == IF indexes.details = 0 THEN "" ELSE cell(row, indexes.details, "")
      rationale == IF indexes.rationale = 0 THEN "" ELSE cell(row, indexes.rationale, "")
      startDate == setHours(addDays(planStartMonday, (weekNumber - 1) * 7 + dayOffset), 7, tz)
      endDate == startDate + estimatedDurationMinutes(workoutType)
      isSet(part) == part # ""
  IN [title |-> "Frunna W" \o ToString(weekNumber) \o ": " \o workoutType,
      startDate |-> toISOString(startDate),
      endDate |-> toISOString(endDate),
      notes |-> join(SelectSeq(<<details, rationale>>, isSet), "\n")]

\* what the forEach callback of one table pushes, and whether it throws:
\* a day offset that is no number makes the date invalid, and toISOString
\* of an invalid date throws a RangeError
eventsOfTable(table, tableIndex, planStartMonday, tz) ==
  LET weekNumber == extractWeekNumber(table.title, tableIndex)
      indexes == [day |-> dayIndexOf(table.headers),
                  workoutType |-> workoutIndexOf(table.headers),
                  details |-> detailsIndexOf(table.headers),
                  rationale |-> rationaleIndexOf(table.headers)]
      pushed == IF indexes.day = 0 \/ indexes.workoutType = 0 THEN <<>>
                ELSE pushedRows(table, indexes.day, indexes.workoutType)
      offsets == map([i \in 1..Len(pushed) |->
                        lookupDayIndex(toLowerCase(trim(cell(pushed[i], indexes.day, ""))))])
  IN [threw |-> \E i \in 1..Len(pushed) : offsets[i].kind = "object",
      events |-> map([i \in 1..Len(pushed) |->
                        eventOf(pushed[i], weekNumber, offsets[i].value, indexes,
                                planStartMonday, tz)])]

RECURSIVE concatEvents(_)
concatEvents(perTable) ==
  IF Len(perTable) = 0 THEN <<>> ELSE perTable[1].events \o concatEvents(Tail(perTable))

\* planStartDateIso is <<>> when absent; now and tz are the clock and the
\* zone of the device.  The events, or the fact that the call threw.
toCalendarEvents(tables, planStartDateIso, now, tz) ==
  LET planStartMonday == IF planStartDateIso # <<>> THEN parseIso(planStartDateIso[1])
                         ELSE nextMonday(now, tz)
      perTable == map([t \in 1..Len(tables) |->
                         eventsOfTable(tables[t], t, planStartMonday, tz)])
  IN IF \E t \in 1..Len(perTable) : perTable[t].threw
     THEN [threw |-> TRUE, events |-> <<>>]
     ELSE [threw |-> FALSE, events |-> concatEvents(perTable)]

(***************************************************************************)
(* Weekly orchestrator: prompts                                            *)
(***************************************************************************)
looksLikeContextWindowError(message) ==
  LET normalized == toLowerCase(message)
  IN \/ includes(normalized, "context window")
     \/ includes(normalized, "model size")
     \/ includes(normalized, "token")

\* the narrative cut to two entries
toCompactInput_twoEntries(input) ==
  [input EXCEPT
     !.workoutNarrative = SubSeq(input.workoutNarrative, 1,
                                 IF Len(input.workoutNarrative) < 2
                                 THEN Len(input.workoutNarrative) ELSE 2),
     !.vo2Trend = "VO2: " \o input.vo2Trend,
     !.distanceTrend = "Distance: " \o input.distanceTrend,
     !.stepTrend = "Steps: " \o input.stepTrend]

toCompactInput(input) ==
  [input EXCEPT
     !.workoutNarrative = SubSeq(input.workoutNarrative, 1,
                                 IF Len(input.workoutNarrative) < 3
                                 THEN Len(input.workoutNarrative) ELSE 3),
     !.vo2Trend = "VO2: " \o input.vo2Trend,
     !.distanceTrend = "Distance: " \o input.distanceTrend,
     !.stepTrend = "Steps: " \o input.stepTrend]

\* historySummaries.join('\n\n') as the historyContext of a prompt input
fullPromptInput(input, summaries) ==
  [input EXCEPT !.historyContext = join(summaries, "\n\n")]

\* the compact prompt input built without the history digests
compactPromptInput_withoutHistory(input, summaries) == toCompactInput(input)

compactPromptInput(input, summaries) ==
  [toCompactInput(input) EXCEPT !.historyContext = join(summaries, "\n\n")]

\* The prompt text is kept as the record of what it is rendered from: the
\* prompt input, the week of the part key, and the lines appended to it.
buildAdaptiveRunningCoachPrompt(promptInput, week) ==
  [input |-> promptInput, week |-> week, fixes |-> <<>>]

withRunDayCorrection(prompt, weekNumber, runDayCap) ==
  [prompt EXCEPT !.fixes = @ \o
     <<"",
       "Critical Fix: Rewrite Week " \o ToString(weekNumber) \o " so it has EXACTLY "
         \o ToString(runDayCap) \o " run days.",
       "Critical Fix: The other " \o ToString(7 - runDayCap)
         \o " days must be Rest or non-running cross-training.",
       "Critical Fix: Return ONLY corrected JSON for that week using the same schema.">>]

\* lines 1064-1067: structured parsing first, the markdown tables otherwise
normalizedTablesOf(text, expectedWeekNumber) ==
  LET structuredWeek == parseWeekJsonFromText(text, expectedWeekNumber)
  IN IF structuredWeek # <<>>
     THEN <<structuredWeekToTable(structuredWeek[1])>>
     ELSE enforceExpectedWeek(parseMarkdownTables(text), expectedWeekNumber)

\* the test asking for exactly runDayCap run days
needsCorrection_unlessExact(mode, tables, runDayCap) ==
  mode \in {"full", "compact"} /\ countPlannedRunDays(tables) # runDayCap

\* the test repeated after a corrective response as well
needsCorrection_afterEveryResponse(mode, tables, runDayCap) ==
  countPlannedRunDays(tables) > runDayCap

\* the test with >= in place of >
needsCorrection_atCap(mode, tables, runDayCap) ==
  mode \in {"full", "compact"} /\ countPlannedRunDays(tables) >= runDayCap

\* the test that guards the corrective re-request; it is made after the
\* full and the compact request only
needsCorrection(mode, tables, runDayCap) ==
  mode \in {"full", "compact"} /\ countPlannedRunDays(tables) > runDayCap

correctiveMode(mode) == IF mode = "full" THEN "full-corrective" ELSE "compact-corrective"

\* the empty string as a response text
NoText == [json |-> <<>>, lines |-> <<>>]

partTitle(week) == "## Week " \o ToString(week)

\* the narrative without its latest section
partialCombined_withoutLatest(responses) ==
  map([i \in 1..(Len(responses) - 1) |-> [title |-> partTitle(i), text |-> responses[i]]])

\* the narrative as the list of its sections, each a title and a response
partialCombined(responses) ==
  map([i \in 1..Len(responses) |-> [title |-> partTitle(i), text |-> responses[i]]])

\* lines 1118-1120: one section per part, partResponses[index] ?? ''
combined(planLengthWeeks, responses) ==
  map([i \in 1..planLengthWeeks |->
         [title |-> partTitle(i),
          text |-> IF i <= Len(responses) THEN responses[i] ELSE NoText]])

\* a loop that leaves out the last part
hasNextPart_stoppingEarly(weekNumber, planLengthWeeks) == weekNumber + 1 < planLengthWeeks

\* line 1050, for (const part of parts): another part follows weekNumber
hasNextPart(weekNumber, planLengthWeeks) == weekNumber < planLengthWeeks

\* caught instanceof Error ? caught.message : fallback
messageOf(thrown, fallback) == IF thrown.isError THEN thrown.message ELSE fallback

(***************************************************************************)
(* Inputs: what the generative model answers, what a request throws        *)
(***************************************************************************)
Day(day, workoutType, details, rationale) ==
  [day |-> day, workoutType |-> workoutType, details |-> details, rationale |-> rationale]

\* JSON without a week field: two run days
JsonTwoRuns ==
  [json |-> <<[week |-> <<>>, verdict |-> "Push", reasoning |-> "ramp load",
               daysIsArray |-> TRUE,
               days |-> <<Day("Mon", "Easy Run", "5km", "aerobic base"),
                          Day("sunday", "Long Run", "", "")>>]>>,
   lines |-> <<"{}">>]

\* JSON that reports week 9: four run days, Monday named twice
JsonFourRuns ==
  [json |-> <<[week |-> <<9>>, verdict |-> "", reasoning |-> "",
               daysIsArray |-> TRUE,
               days |-> <<Day("Monday", "Easy Run", "6km", ""),
                          Day("Tue", "Tempo Run", "", "threshold"),
                          Day("mon", "Intervals", "", ""),
                          Day("Thurs", "Easy Run", "", ""),
                          Day("Sun", "Long Run", "16km", "")>>]>>,
   lines |-> <<"Here is week 9:", "{}">>]

\* a JSON object whose days field is no list, and two markdown tables: the
\* first carries its own week column and has three run days, the second has
\* two run days on weekdays of the first
MarkdownTwoTables ==
  [json |-> <<[week |-> <<1>>, verdict |-> "", reasoning |-> "",
               daysIsArray |-> FALSE, days |-> <<>>]>>,
   lines |-> <<"Verdict: Push",
               "| Week | Day | Workout | Details |",
               "|---|---|---|---|",
               "| Week 9 | Mon | Easy Run | 5km |",
               "| Week 9 | Wed | Tempo | 6km | Z4 |",
               "| Week 9 | Fri | Day Off |",
               "| Week 9 | Sun | Long Run | 14km |",
               "",
               "  | day | Workout Type |  ",
               "| --- | --- |",
               "| Mon | Strength |",
               "| Sun | Hill Repeats |">>]

\* neither JSON nor a table
PlainProse == [json |-> <<>>, lines |-> <<"Sorry, I cannot help with that.", "| a |">>]

Responses == {JsonTwoRuns, JsonFourRuns, MarkdownTwoTables, PlainProse}

Errors ==
  {[isError |-> TRUE, message |-> "Exceeded model Context Window size"],
   [isError |-> TRUE, message |-> "Too many TOKENS"],
   [isError |-> TRUE, message |-> "Network request failed"],
   [isError |-> FALSE, message |-> "token"]}

\* summarizeWorkouts of a health summary with one workout and without any
OneWorkout ==
  <<"1 workouts completed over 30 days.",
    "Total workout time 30 min (avg 30 min per session).",
    "Total workout energy 250 kcal.",
    "Most frequent sessions: Running x1.",
    "Recent sessions:",
    "2024-05-29: Running, 30min, 250kcal">>

NoWorkouts == <<"No workouts logged in this period.">>

\* the settings of a run and the workouts of its health summary
Settings ==
  {[planLengthWeeks |-> MaxWeeks, runDaysPerWeek |-> "1", longRunDay |-> "Saturday",
    workoutNarrative |-> OneWorkout],
   [planLengthWeeks |-> MaxWeeks, runDaysPerWeek |-> "2", longRunDay |-> "Sunday",
    workoutNarrative |-> NoWorkouts]}

\* fullInput, lines 1195-1213, with the trendLine of series without data points
BaseInput(setting) ==
  [planLengthWeeks |-> setting.planLengthWeeks,
   runDaysPerWeek |-> setting.runDaysPerWeek,
   longRunDay |-> setting.longRunDay,
   vo2Trend |-> "VO2 max: no data",
   distanceTrend |-> "Walking/running distance: no data",
   stepTrend |-> "Daily steps: no data",
   workoutNarrative |-> setting.workoutNarrative,
   historyContext |-> ""]

\* the settings before the first run
DefaultSetting ==
  [planLengthWeeks |-> MaxWeeks, runDaysPerWeek |-> "4", longRunDay |-> "Sunday",
   workoutNarrative |-> NoWorkouts]

(***************************************************************************)
(* The plan on display, today's workout and the check-in keys              *)
(***************************************************************************)
completionKey(planId, weekNumber, dayName) ==
  planId \o ":week-" \o ToString(weekNumber) \o ":" \o toLowerCase(dayName)

\* lines 474-506.  filter skips the holes of a row.  The keys of groupedRows
\* are listed as Object.entries lists keys that are neither integers nor
\* names inherited from Object.prototype: in the order of their first rows.
buildDisplayTables(tables) ==
  LET withoutColumn(row, weekColumnIndex) ==
        LET F[i \in 0..Len(row)] ==
              IF i = 0 THEN <<>>
              ELSE LET before == F[i - 1]
                   IN IF i # weekColumnIndex /\ row[i] # undefined
                      THEN Append(before, row[i]) ELSE before
        IN F[Len(row)]
      \* row[weekColumnIndex] || `Week ${tableIndex + 1}`
      weekKeyOf(row, weekColumnIndex, tableIndex) ==
        IF cell(row, weekColumnIndex, "") = "" THEN weekLabel(tableIndex)
        ELSE row[weekColumnIndex]
      weekKeysOf(rows, weekColumnIndex, tableIndex) ==
        LET F[i \in 0..Len(rows)] ==
              IF i = 0 THEN <<>>
              ELSE LET key == weekKeyOf(rows[i], weekColumnIndex, tableIndex)
                       before == F[i - 1]
                   IN IF \E j \in 1..Len(before) : before[j] = key
                      THEN before ELSE Append(before, key)
        IN F[Len(rows)]
      rowsOfWeek(rows, weekColumnIndex, tableIndex, key) ==
        LET F[i \in 0..Len(rows)] ==
              IF i = 0 THEN <<>>
              ELSE LET before == F[i - 1]
                   IN IF weekKeyOf(rows[i], weekColumnIndex, tableIndex) = key
                      THEN Append(before, rows[i]) ELSE before
        IN F[Len(rows)]
      displayTablesOf(table, tableIndex) ==
        LET weekColumnIndex == weekIndexOf(table.headers)
            keys == weekKeysOf(table.rows, weekColumnIndex, tableIndex)
        IN IF weekColumnIndex = 0
           THEN <<[title |-> "Plan " \o ToString(tableIndex),
                   headers |-> table.headers, rows |-> table.rows]>>
           ELSE map([k \in 1..Len(keys) |->
                  LET rows == rowsOfWeek(table.rows, weekColumnIndex, tableIndex, keys[k])
                  IN [title |-> keys[k],
                      headers |-> withoutColumn(table.headers, weekColumnIndex),
                      rows |-> map([r \in 1..Len(rows) |->
                                 withoutColumn(rows[r], weekColumnIndex)])]])
      G[t \in 0..Len(tables)] ==
        IF t = 0 THEN <<>> ELSE G[t - 1] \o displayTablesOf(tables[t], t)
  IN G[Len(tables)]

\* lines 836-862: <<>> for null, else <<key>>.  planId is <<>> for null,
\* today the device clock in minutes and tz its zone.
todayCompletionKeyOf(planId, displayTables, planStartDateIso, today, tz) ==
  LET elapsedDays == (today - parseIso(planStartDateIso)) \div MinutesPerDay
      computedWeekNumber == IF elapsedDays < 0 THEN 1 ELSE (elapsedDays \div 7) + 1
      todayWeekNumber == IF computedWeekNumber < 1 THEN 1 ELSE computedWeekNumber
      \* today.toLocaleDateString('en-US', { weekday: 'long' })
      todayDayName == WEEKDAY_NAMES[((getDay(today, tz) + 6) % 7) + 1]
      tableAt == findIndex({t \in 1..Len(displayTables) :
                   extractWeekNumber(displayTables[t].title, t) = todayWeekNumber})
      todayTable == displayTables[tableAt]
      todayDayIndex == dayIndexOf(todayTable.headers)
      todayWorkoutTypeIndex == workoutIndexOf(todayTable.headers)
      named == findIndex({r \in 1..Len(todayTable.rows) :
                 normalizeDayName(cell(todayTable.rows[r], todayDayIndex, ""))
                   = <<todayDayName>>})
      runnable == findIndex({r \in 1..Len(todayTable.rows) :
                    ~isRestLikeWorkout(cell(todayTable.rows[r], todayWorkoutTypeIndex, ""))})
      rowAt == IF named # 0 THEN named ELSE runnable
  IN IF planId = <<>> \/ planId[1] = "" \/ tableAt = 0 THEN <<>>
     ELSE IF rowAt = 0 THEN <<>>
     ELSE <<completionKey(planId[1], todayWeekNumber,
                          cell(todayTable.rows[rowAt], todayDayIndex, todayDayName))>>

\* an entry with the numbers as they were typed, 0 where none was typed
checkinEntry_unclamped(checkinRpe, checkinSoreness, checkinSleep, checkinNotes, completedAt) ==
  LET score(value) == IF parseInt(value) = <<>> THEN 0 ELSE parseInt(value)[1]
  IN [completedAt |-> completedAt,
      notes |-> trim(checkinNotes),
      rpe |-> score(checkinRpe),
      soreness |-> score(checkinSoreness),
      sleepQuality |-> score(checkinSleep)]

\* the entry saveTodayCheckin stores, lines 1392-1403
checkinEntry(checkinRpe, checkinSoreness, checkinSleep, checkinNotes, completedAt) ==
  LET \* Math.min(high, Math.max(1, Number.parseInt(value, 10) || default))
      score(value, default, high) ==
        LET parsed == parseInt(value)
            number == IF parsed = <<>> \/ parsed[1] = 0 THEN default ELSE parsed[1]
        IN IF number < 1 THEN 1 ELSE IF number > high THEN high ELSE number
  IN [completedAt |-> completedAt,
      notes |-> trim(checkinNotes),
      rpe |-> score(checkinRpe, 6, 10),
      soreness |-> score(checkinSoreness, 4, 10),
      sleepQuality |-> score(checkinSleep, 3, 5)]

\* the device clock, Thursday 2024-05-30 23:30 UTC
ClockNow == 19873 * MinutesPerDay + 1410

\* the zone of the device in a session, UTC-8
TimeZone == 0 - 480

\* Date.now() when the session starts; it advances with every plan made
SessionStart == 100

\* lines 1219-1232, the fields openSavedPlan and the plan view read
newSavedPlan(now, fullInput, combinedResponse, tables) ==
  [id |-> "plan-" \o ToString(now),
   planLengthWeeks |-> fullInput.planLengthWeeks,
   runDaysPerWeek |-> fullInput.runDaysPerWeek,
   longRunDay |-> fullInput.longRunDay,
   planStartDate |-> toISOString(nextMonday(ClockNow, TimeZone)),
   response |-> combinedResponse,
   tables |-> tables]

\* a list that keeps its last twelve plans
withSavedPlan_keepingOldest(savedPlan, current) ==
  LET all == <<savedPlan>> \o current
  IN SubSeq(all, IF Len(all) < 12 THEN 1 ELSE Len(all) - 11, Len(all))

\* [savedPlan, ...current].slice(0, 12)
withSavedPlan(savedPlan, current) ==
  LET all == <<savedPlan>> \o current
  IN SubSeq(all, 1, IF Len(all) < 12 THEN Len(all) ELSE 12)

(***************************************************************************)
(* State                                                                   *)
(***************************************************************************)
VARIABLES
  healthLoading,        \* React state of App
  error,
  response,
  planTables,
  debugPrompts,
  pc,                   \* the await generateHealthInsights is suspended at
  input,                \* buildWeeklyPlan's argument
  expectedWeekNumber,   \* locals of buildWeeklyPlan
  partResponses,
  accumulatedTables,
  historySummaries,
  nextDebugPrompts,
  text,
  caught,               \* the catch variable of buildWeeklyPlan, <<>> outside the block
  failure,              \* the catch variable of generateHealthInsights
  partialPublishCount,  \* calls of setPlanTables made by buildWeeklyPlan
  clampIn,              \* argument and result of clampWeekToRunDayCap (SpecClamp)
  clampCap,
  clampLongRunDay,
  clampOut,
  callee,               \* a function of App.tsx called on its own (SpecCalls),
  args,                 \* its arguments,
  result,               \* and <<value>> once it returned
  savedPlans,           \* React state of App: the session
  activePlanId,         \* <<>> for null
  planStartDate,
  completions,
  syncedEventIds,
  calendarLoading,
  calendarPc,           \* the await a calendar handler is suspended at
  calendarLocals,       \* what that handler read when it was invoked
  calendarEvents,       \* the events of the device calendar that syncs created
  createdEvents,        \* how many events syncs created, the source of their ids
  dateNow,              \* Date.now()
  loadPc                \* loadPersistedState: "pending" until storage answered

appVars == <<healthLoading, error, response, planTables, debugPrompts>>
planVars == <<pc, input, expectedWeekNumber, partResponses, accumulatedTables,
              historySummaries, nextDebugPrompts, text, caught,
              failure, partialPublishCount>>
clampVars == <<clampIn, clampCap, clampLongRunDay, clampOut>>
callVars == <<callee, args, result>>
sessionVars == <<savedPlans, activePlanId, planStartDate, completions, dateNow, loadPc>>
calendarVars == <<syncedEventIds, calendarLoading, calendarPc, calendarLocals,
                  calendarEvents, createdEvents>>
vars == <<appVars, planVars, clampVars, callVars, sessionVars, calendarVars>>

RequestModes == {"full", "full-corrective", "compact", "compact-corrective"}

InitSession ==
  /\ savedPlans = <<>>
  /\ activePlanId = <<>>
  /\ planStartDate = toISOString(nextMonday(ClockNow, TimeZone))
  /\ completions = <<>>
  /\ syncedEventIds = <<>>
  /\ calendarLoading = FALSE
  /\ calendarPc = "idle"
  /\ calendarLocals = <<>>
  /\ calendarEvents = {}
  /\ createdEvents = 0
  /\ dateNow = SessionStart
  /\ loadPc = "pending"

InitApp ==
  /\ healthLoading = FALSE
  /\ error = ""
  /\ response = <<>>
  /\ planTables = <<>>
  /\ debugPrompts = <<>>
  /\ pc = "idle"
  /\ input = BaseInput(DefaultSetting)
  /\ expectedWeekNumber = 0
  /\ partResponses = <<>>
  /\ accumulatedTables = <<>>
  /\ historySummaries = <<>>
  /\ nextDebugPrompts = <<>>
  /\ text = NoText
  /\ caught = <<>>
  /\ failure = <<>>
  /\ partialPublishCount = 0
  /\ InitSession

InitClamp ==
  /\ clampIn = <<>>
  /\ clampCap = 4
  /\ clampLongRunDay = "Sunday"
  /\ clampOut = <<>>

InitCall ==
  /\ callee = ""
  /\ args = <<>>
  /\ result = <<>>

Init == InitApp /\ InitClamp /\ InitCall

(***************************************************************************)
(* generateHealthInsights and buildWeeklyPlan                              *)
(***************************************************************************)
\* a handler that does not call setHealthLoading(true)
GenerateStart_notLoading ==
  /\ ~healthLoading
  /\ dateNow < SessionStart + MaxPlans
  /\ healthLoading' = healthLoading
  /\ error' = ""
  /\ response' = <<>>
  /\ planTables' = <<>>
  /\ debugPrompts' = <<>>
  /\ pc' = "auth"
  /\ expectedWeekNumber' = 0
  /\ partResponses' = <<>>
  /\ accumulatedTables' = <<>>
  /\ historySummaries' = <<>>
  /\ nextDebugPrompts' = <<>>
  /\ text' = NoText
  /\ caught' = <<>>
  /\ failure' = <<>>
  /\ partialPublishCount' = 0
  /\ UNCHANGED <<input, clampVars, callVars, sessionVars, calendarVars>>

\* The buttons are disabled while healthLoading.  The locals of the previous
\* invocation of buildWeeklyPlan no longer exist; they are cleared here.
\* A session generates no more than MaxPlans plans.
GenerateStart ==
  /\ ~healthLoading
  /\ dateNow < SessionStart + MaxPlans
  /\ healthLoading' = TRUE
  /\ error' = ""
  /\ response' = <<>>
  /\ planTables' = <<>>
  /\ debugPrompts' = <<>>
  /\ pc' = "auth"
  /\ expectedWeekNumber' = 0
  /\ partResponses' = <<>>
  /\ accumulatedTables' = <<>>
  /\ historySummaries' = <<>>
  /\ nextDebugPrompts' = <<>>
  /\ text' = NoText
  /\ caught' = <<>>
  /\ failure' = <<>>
  /\ partialPublishCount' = 0
  /\ UNCHANGED <<input, clampVars, callVars, sessionVars, calendarVars>>

\* the runs of a session up to its first saved plan
FirstGenerateStart == savedPlans = <<>> /\ GenerateStart

\* a catch block that also clears what was published
Abort_clearingPlan(thrown) ==
  /\ failure' = <<thrown>>
  /\ error' = messageOf(thrown, "Unknown error while generating health insights.")
  /\ healthLoading' = FALSE
  /\ pc' = "idle"
  /\ response' = <<>>
  /\ planTables' = <<>>
  /\ UNCHANGED <<debugPrompts, input, expectedWeekNumber,
                 partResponses, accumulatedTables, historySummaries, nextDebugPrompts,
                 text, caught, partialPublishCount, clampVars, callVars, sessionVars, calendarVars>>

\* catch and finally of generateHealthInsights
Abort(thrown) ==
  /\ failure' = <<thrown>>
  /\ error' = messageOf(thrown, "Unknown error while generating health insights.")
  /\ healthLoading' = FALSE
  /\ pc' = "idle"
  /\ UNCHANGED <<response, planTables, debugPrompts, input, expectedWeekNumber,
                 partResponses, accumulatedTables, historySummaries, nextDebugPrompts,
                 text, caught, partialPublishCount, clampVars, callVars, sessionVars, calendarVars>>

AuthorizationResult(authorized) ==
  /\ pc = "auth"
  /\ IF authorized
     THEN /\ pc' = "summary"
          /\ UNCHANGED <<error, healthLoading>>
     ELSE /\ error' = "Health permission was not granted."
          /\ healthLoading' = FALSE
          /\ pc' = "idle"
  /\ UNCHANGED <<response, planTables, debugPrompts, input, expectedWeekNumber,
                 partResponses, accumulatedTables, historySummaries, nextDebugPrompts,
                 text, caught, failure, partialPublishCount, clampVars, callVars, sessionVars, calendarVars>>

\* the health summary arrives; buildWeeklyPlan starts and awaits the full
\* request of week 1
HealthSummaryResult(setting) ==
  /\ pc = "summary"
  /\ LET in == BaseInput(setting)
         fullPrompt == buildAdaptiveRunningCoachPrompt(fullPromptInput(in, <<>>), 1)
     IN /\ input' = in
        /\ expectedWeekNumber' = 1
        /\ nextDebugPrompts' = <<[week |-> 1, mode |-> "full", prompt |-> fullPrompt]>>
        /\ pc' = "full"
  /\ syncedEventIds' = <<>>
  /\ UNCHANGED <<appVars, partResponses, accumulatedTables, historySummaries, text,
                 caught, failure, partialPublishCount, clampVars, callVars, sessionVars,
                 calendarLoading, calendarPc, calendarLocals, calendarEvents,
                 createdEvents>>

\* requestHealthAuthorizationAsync or getHealthSummaryAsync rejects
PermissionCallFails(thrown) ==
  /\ pc \in {"auth", "summary"}
  /\ Abort(thrown)

\* a week accepted on the compact path that also keeps the tables parsed from
\* the response the full path had received
AcceptWeek_keepingAbandoned(newText, tables) ==
  \E clamped \in clampWeekToRunDayCap(tables, parseRunDayCap(input.runDaysPerWeek),
                                       input.longRunDay) :
  LET responses == Append(partResponses, newText)
      abandoned == IF pc \in {"compact", "compact-corrective"}
                   THEN normalizedTablesOf(text, expectedWeekNumber)
                   ELSE <<>>
      accumulated == accumulatedTables \o abandoned \o clamped
      summaries == Append(historySummaries,
                          summarizeWeekForHistory(clamped, expectedWeekNumber))
      nextWeek == expectedWeekNumber + 1
      fullPrompt == buildAdaptiveRunningCoachPrompt(fullPromptInput(input, summaries), nextWeek)
  IN /\ text' = newText
     /\ partResponses' = responses
     /\ accumulatedTables' = accumulated
     /\ historySummaries' = summaries
     /\ caught' = <<>>
     /\ planTables' = accumulated
     /\ partialPublishCount' = partialPublishCount + 1
     /\ IF hasNextPart(expectedWeekNumber, input.planLengthWeeks)
        THEN /\ response' = partialCombined(responses)
             /\ expectedWeekNumber' = nextWeek
             /\ nextDebugPrompts' = Append(nextDebugPrompts,
                  [week |-> nextWeek, mode |-> "full", prompt |-> fullPrompt])
             /\ debugPrompts' = nextDebugPrompts
             /\ pc' = "full"
             /\ UNCHANGED <<healthLoading, sessionVars>>
        ELSE /\ response' = combined(input.planLengthWeeks, responses)
             /\ debugPrompts' = nextDebugPrompts
             /\ LET savedPlan == newSavedPlan(dateNow, input,
                                    combined(input.planLengthWeeks, responses), accumulated)
                IN /\ savedPlans' = withSavedPlan(savedPlan, savedPlans)
                   /\ activePlanId' = <<savedPlan.id>>
                   /\ planStartDate' = savedPlan.planStartDate
             /\ dateNow' = dateNow + 1
             /\ healthLoading' = FALSE
             /\ pc' = "idle"
             /\ UNCHANGED <<expectedWeekNumber, nextDebugPrompts, completions, loadPc>>
     /\ UNCHANGED <<error, input, failure, clampVars, callVars, calendarVars>>

\* lines 1077-1080 / 1103-1106, the publication, and the next loop iteration
\* up to its await, or the return into generateHealthInsights, which shows
\* the returned narrative and tables (lines 1215-1216)
AcceptWeek(newText, tables) ==
  \E clamped \in clampWeekToRunDayCap(tables, parseRunDayCap(input.runDaysPerWeek),
                                       input.longRunDay) :
  LET responses == Append(partResponses, newText)
      accumulated == accumulatedTables \o clamped
      summaries == Append(historySummaries,
                          summarizeWeekForHistory(clamped, expectedWeekNumber))
      nextWeek == expectedWeekNumber + 1
      fullPrompt == buildAdaptiveRunningCoachPrompt(fullPromptInput(input, summaries), nextWeek)
  IN /\ text' = newText
     /\ partResponses' = responses
     /\ accumulatedTables' = accumulated
     /\ historySummaries' = summaries
     /\ caught' = <<>>
     /\ planTables' = accumulated
     /\ partialPublishCount' = partialPublishCount + 1
     /\ IF hasNextPart(expectedWeekNumber, input.planLengthWeeks)
        THEN /\ response' = partialCombined(responses)
             /\ expectedWeekNumber' = nextWeek
             /\ nextDebugPrompts' = Append(nextDebugPrompts,
                  [week |-> nextWeek, mode |-> "full", prompt |-> fullPrompt])
             /\ debugPrompts' = nextDebugPrompts
             /\ pc' = "full"
             /\ UNCHANGED <<healthLoading, sessionVars>>
        ELSE /\ response' = combined(input.planLengthWeeks, responses)
             /\ debugPrompts' = nextDebugPrompts
             /\ LET savedPlan == newSavedPlan(dateNow, input,
                                    combined(input.planLengthWeeks, responses), accumulated)
                IN /\ savedPlans' = withSavedPlan(savedPlan, savedPlans)
                   /\ activePlanId' = <<savedPlan.id>>
                   /\ planStartDate' = savedPlan.planStartDate
             /\ dateNow' = dateNow + 1
             /\ healthLoading' = FALSE
             /\ pc' = "idle"
             /\ UNCHANGED <<expectedWeekNumber, nextDebugPrompts, completions, loadPc>>
     /\ UNCHANGED <<error, input, failure, clampVars, callVars, calendarVars>>

\* queryModel resolves with newText
ResponseArrives(newText) ==
  /\ pc \in RequestModes
  /\ LET runDayCap == parseRunDayCap(input.runDaysPerWeek)
         tables == normalizedTablesOf(newText, expectedWeekNumber)
         lastPrompt == nextDebugPrompts[Len(nextDebugPrompts)].prompt
     IN IF needsCorrection(pc, tables, runDayCap)
        THEN /\ text' = newText
             /\ nextDebugPrompts' = Append(nextDebugPrompts,
                  [week |-> expectedWeekNumber, mode |-> correctiveMode(pc),
                   prompt |-> withRunDayCorrection(lastPrompt, expectedWeekNumber, runDayCap)])
             /\ pc' = correctiveMode(pc)
             /\ UNCHANGED <<appVars, input, expectedWeekNumber, partResponses,
                            accumulatedTables, historySummaries, caught, failure,
                            partialPublishCount, clampVars, callVars, sessionVars, calendarVars>>
        ELSE AcceptWeek(newText, tables)

\* lines 1087-1089: the compact request of the same week is issued
EnterCompact(thrown) ==
  LET compactPrompt ==
        buildAdaptiveRunningCoachPrompt(
          compactPromptInput(input, historySummaries), expectedWeekNumber)
  IN /\ caught' = <<thrown>>
     /\ nextDebugPrompts' = Append(nextDebugPrompts,
          [week |-> expectedWeekNumber, mode |-> "compact", prompt |-> compactPrompt])
     /\ pc' = "compact"
     /\ UNCHANGED <<appVars, input, expectedWeekNumber, partResponses,
                    accumulatedTables, historySummaries, text,
                    failure, partialPublishCount, clampVars, callVars, sessionVars, calendarVars>>

\* a catch block that is entered again from the compact path
RequestFails_retryingCompact(thrown) ==
  /\ pc \in RequestModes
  /\ IF looksLikeContextWindowError(messageOf(thrown, "Unknown planning error."))
     THEN EnterCompact(thrown)
     ELSE Abort(thrown)

\* the catch block with its test inverted
RequestFails_inverted(thrown) ==
  /\ pc \in RequestModes
  /\ IF /\ pc \in {"full", "full-corrective"}
        /\ ~looksLikeContextWindowError(messageOf(thrown, "Unknown planning error."))
     THEN EnterCompact(thrown)
     ELSE Abort(thrown)

\* queryModel rejects with thrown: inside the try block a context-window
\* error is caught, every other error and every error thrown inside the
\* catch block leaves buildWeeklyPlan
RequestFails(thrown) ==
  /\ pc \in RequestModes
  /\ IF /\ pc \in {"full", "full-corrective"}
        /\ looksLikeContextWindowError(messageOf(thrown, "Unknown planning error."))
     THEN EnterCompact(thrown)
     ELSE Abort(thrown)

Next ==
  \/ FirstGenerateStart
  \/ \E authorized \in BOOLEAN : AuthorizationResult(authorized)
  \/ \E setting \in Settings : HealthSummaryResult(setting)
  \/ \E thrown \in Errors : PermissionCallFails(thrown)
  \/ \E newText \in Responses : ResponseArrives(newText)
  \/ \E thrown \in Errors : RequestFails(thrown)

Spec == Init /\ [][Next]_vars

\* A step in which the pending queryModel promise resolves: a step out of a
\* request state that is no rejection.
ResponseStep ==
  /\ pc \in RequestModes
  /\ failure' = failure
  /\ caught' \in {caught, <<>>}

\* A pending queryModel promise that is going to resolve does resolve, and
\* the continuation of the await runs.  This is WF_vars(AnyResponseArrives)
\* for AnyResponseArrives == \E newText \in Responses : ResponseArrives(newText),
\* written out: that action is enabled exactly when pc \in RequestModes, and
\* its steps are the ResponseStep steps.
ResponsesArrive == []<>(pc \notin RequestModes) \/ []<><<ResponseStep>>_vars

SpecLive == Init /\ [][Next]_vars /\ ResponsesArrive

(***************************************************************************)
(* The session: stored state, saved plans, check-ins and the calendar      *)
(***************************************************************************)
\* the runs of a session answer with one of two week plans, fail with a
\* network error and use the settings the app starts with
SessionResponses == {JsonTwoRuns, JsonFourRuns}

SessionErrors == {[isError |-> TRUE, message |-> "Network request failed"]}

SessionSetting ==
  [planLengthWeeks |-> 1, runDaysPerWeek |-> "4", longRunDay |-> "Sunday",
   workoutNarrative |-> NoWorkouts]

\* a plan an earlier session saved age plans before this one: its first week
\* began on Monday 2024-05-20, so that today is in its second week
storedPlan(age) ==
  [id |-> "plan-" \o ToString(SessionStart - age),
   planLengthWeeks |-> 2,
   runDaysPerWeek |-> "7",
   longRunDay |-> "Sunday",
   planStartDate |-> [day |-> 19863, minute |-> 480],
   response |-> combined(2, <<JsonTwoRuns, MarkdownTwoTables>>),
   tables |-> normalizedTablesOf(JsonTwoRuns, 1) \o normalizedTablesOf(MarkdownTwoTables, 2)]

\* what storage holds under STORAGE_PLANS_KEY: nothing, or a full list
StoredPlanLists == {<<>>, map([age \in 1..12 |-> storedPlan(age)])}

\* what storage holds under STORAGE_COMPLETIONS_KEY: nothing or {}, or one
\* check-in of the latest stored plan
StoredCompletionMaps ==
  {<<>>,
   [key \in {completionKey(storedPlan(1).id, 1, "Mon")} |->
      checkinEntry("7", "3", "4", "", [day |-> 19864, minute |-> 0])]}

\* loadPersistedState, lines 935-965, once storage answered
LoadPersistedState(storedPlans, storedCompletions) ==
  /\ loadPc = "pending"
  /\ loadPc' = "done"
  /\ IF storedPlans # <<>>
     THEN /\ savedPlans' = storedPlans
          /\ activePlanId' = <<storedPlans[1].id>>
          /\ planStartDate' = storedPlans[1].planStartDate
          /\ response' = storedPlans[1].response
          /\ planTables' = storedPlans[1].tables
     ELSE UNCHANGED <<savedPlans, activePlanId, planStartDate, response, planTables>>
  /\ completions' = IF DOMAIN storedCompletions # {} THEN storedCompletions ELSE completions
  /\ UNCHANGED <<healthLoading, error, debugPrompts, planVars, clampVars, callVars,
                 dateNow, calendarVars>>

\* openSavedPlan of the plan at position index of the list
OpenSavedPlan(index) ==
  /\ index \in 1..Len(savedPlans)
  /\ activePlanId' = <<savedPlans[index].id>>
  /\ planStartDate' = savedPlans[index].planStartDate
  /\ response' = savedPlans[index].response
  /\ planTables' = savedPlans[index].tables
  /\ UNCHANGED <<healthLoading, error, debugPrompts, planVars, clampVars, callVars,
                 savedPlans, completions, dateNow, loadPc, calendarVars>>

\* what the user typed into the check-in form
CheckinForms ==
  {[rpe |-> "6", soreness |-> "4", sleep |-> "3", notes |-> ""],
   [rpe |-> "0", soreness |-> "11", sleep |-> "9", notes |-> " heavy legs "],
   [rpe |-> "hard", soreness |-> "-2", sleep |-> " 2h", notes |-> ""]}

\* saveTodayCheckin; without a key it returns at once.  A session saves
\* check-ins under no more than MaxCheckins keys.
SaveTodayCheckin(form) ==
  LET todayCompletionKey ==
        todayCompletionKeyOf(activePlanId, buildDisplayTables(planTables), planStartDate,
                             ClockNow, TimeZone)
  IN /\ todayCompletionKey # <<>>
     /\ \/ todayCompletionKey[1] \in DOMAIN completions
        \/ Cardinality(DOMAIN completions) < MaxCheckins
     /\ completions' =
          [key \in DOMAIN completions \cup {todayCompletionKey[1]} |->
             IF key = todayCompletionKey[1]
             THEN checkinEntry(form.rpe, form.soreness, form.sleep, form.notes,
                               toISOString(ClockNow))
             ELSE completions[key]]
     /\ UNCHANGED <<appVars, planVars, clampVars, callVars, savedPlans, activePlanId,
                    planStartDate, dateNow, loadPc, calendarVars>>

\* syncPlanToCalendar up to its first await; the buttons are disabled while
\* calendarLoading.  A session syncs no more than MaxSyncs times.
SyncStart ==
  /\ ~calendarLoading
  /\ createdEvents < MaxSyncs
  /\ LET displayTables == buildDisplayTables(planTables)
     IN IF Len(displayTables) = 0
        THEN /\ error' = "Generate a plan first before syncing to calendar."
             /\ UNCHANGED <<calendarLoading, calendarPc, calendarLocals>>
        ELSE /\ calendarLoading' = TRUE
             /\ error' = ""
             /\ calendarPc' = "access"
             /\ calendarLocals' = <<[displayTables |-> displayTables,
                                     planStartDate |-> planStartDate]>>
  /\ UNCHANGED <<healthLoading, response, planTables, debugPrompts, planVars, clampVars,
                 callVars, sessionVars, syncedEventIds, calendarEvents, createdEvents>>

\* a handler that forgets the tracked ids when it ends without a sync
CalendarAccessResult_clearingIds(granted) ==
  /\ calendarPc = "access"
  /\ LET events == toCalendarEvents(calendarLocals[1].displayTables,
                                    <<calendarLocals[1].planStartDate>>, ClockNow, TimeZone)
     IN IF granted /\ ~events.threw /\ Len(events.events) > 0
        THEN /\ calendarPc' = "sync"
             /\ calendarLocals' = <<[events |-> events.events]>>
             /\ UNCHANGED <<error, calendarLoading, syncedEventIds>>
        ELSE /\ error' = IF ~granted THEN "Calendar permission was not granted."
                         ELSE IF events.threw THEN "Invalid time value"
                         ELSE "No runnable workout rows found to sync."
             /\ calendarLoading' = FALSE
             /\ calendarPc' = "idle"
             /\ calendarLocals' = <<>>
             /\ syncedEventIds' = <<>>
  /\ UNCHANGED <<healthLoading, response, planTables, debugPrompts, planVars, clampVars,
                 callVars, sessionVars, calendarEvents, createdEvents>>

\* requestCalendarAccessAsync resolves; lines 1309-1319
CalendarAccessResult(granted) ==
  /\ calendarPc = "access"
  /\ LET events == toCalendarEvents(calendarLocals[1].displayTables,
                                    <<calendarLocals[1].planStartDate>>, ClockNow, TimeZone)
     IN IF granted /\ ~events.threw /\ Len(events.events) > 0
        THEN /\ calendarPc' = "sync"
             /\ calendarLocals' = <<[events |-> events.events]>>
             /\ UNCHANGED <<error, calendarLoading>>
        ELSE /\ error' = IF ~granted THEN "Calendar permission was not granted."
                         ELSE IF events.threw THEN "Invalid time value"
                         ELSE "No runnable workout rows found to sync."
             /\ calendarLoading' = FALSE
             /\ calendarPc' = "idle"
             /\ calendarLocals' = <<>>
  /\ UNCHANGED <<healthLoading, response, planTables, debugPrompts, planVars, clampVars,
                 callVars, sessionVars, syncedEventIds, calendarEvents, createdEvents>>

\* syncCalendarEventsAsync resolves: the native module created one new event
\* per payload and returns their ids, <<call, position>> in the model
SyncResult ==
  /\ calendarPc = "sync"
  /\ LET eventIds == map([i \in 1..Len(calendarLocals[1].events) |->
                            <<createdEvents + 1, i>>])
     IN /\ calendarEvents' = calendarEvents \cup {eventIds[i] : i \in 1..Len(eventIds)}
        /\ syncedEventIds' = eventIds
  /\ createdEvents' = createdEvents + 1
  /\ calendarLoading' = FALSE
  /\ calendarPc' = "idle"
  /\ calendarLocals' = <<>>
  /\ UNCHANGED <<appVars, planVars, clampVars, callVars, sessionVars>>

\* a calendar call rejects with thrown
CalendarCallFails(thrown) ==
  /\ calendarPc \in {"access", "sync", "remove"}
  /\ error' = messageOf(thrown, IF calendarPc = "remove"
                                 THEN "Failed to remove synced calendar events."
                                 ELSE "Failed to sync plan to calendar.")
  /\ calendarLoading' = FALSE
  /\ calendarPc' = "idle"
  /\ calendarLocals' = <<>>
  /\ UNCHANGED <<healthLoading, response, planTables, debugPrompts, planVars, clampVars,
                 callVars, sessionVars, syncedEventIds, calendarEvents, createdEvents>>

\* removeSyncedEvents up to its await
RemoveStart ==
  /\ ~calendarLoading
  /\ IF Len(syncedEventIds) = 0
     THEN /\ error' = "No synced events to remove."
          /\ UNCHANGED <<calendarLoading, calendarPc, calendarLocals>>
     ELSE /\ calendarLoading' = TRUE
          /\ error' = ""
          /\ calendarPc' = "remove"
          /\ calendarLocals' = <<[eventIds |-> syncedEventIds]>>
  /\ UNCHANGED <<healthLoading, response, planTables, debugPrompts, planVars, clampVars,
                 callVars, sessionVars, syncedEventIds, calendarEvents, createdEvents>>

\* removeCalendarEventsAsync resolves: the native module removed the events
\* it was given
RemoveResult ==
  /\ calendarPc = "remove"
  /\ calendarEvents' =
       calendarEvents \ {calendarLocals[1].eventIds[i] :
                           i \in 1..Len(calendarLocals[1].eventIds)}
  /\ syncedEventIds' = <<>>
  /\ calendarLoading' = FALSE
  /\ calendarPc' = "idle"
  /\ calendarLocals' = <<>>
  /\ UNCHANGED <<appVars, planVars, clampVars, callVars, sessionVars, createdEvents>>

\* the positions of the saved-plan list the user opens
OpenedPositions == {1, 2, 12}

\* generation, stored state and saved plans
NextSession ==
  \/ GenerateStart
  \/ \E authorized \in BOOLEAN : AuthorizationResult(authorized)
  \/ HealthSummaryResult(DefaultSetting)
  \/ \E thrown \in SessionErrors : PermissionCallFails(thrown)
  \/ \E newText \in SessionResponses : ResponseArrives(newText)
  \/ \E thrown \in SessionErrors : RequestFails(thrown)
  \/ \E storedPlans \in StoredPlanLists, storedCompletions \in StoredCompletionMaps :
       LoadPersistedState(storedPlans, storedCompletions)
  \/ \E index \in OpenedPositions : OpenSavedPlan(index)

SpecSession == Init /\ [][NextSession]_vars

\* generation, saved plans, check-ins and the calendar
NextCalendar ==
  \/ GenerateStart
  \/ \E authorized \in BOOLEAN : AuthorizationResult(authorized)
  \/ HealthSummaryResult(SessionSetting)
  \/ \E thrown \in SessionErrors : PermissionCallFails(thrown)
  \/ \E newText \in {JsonTwoRuns} : ResponseArrives(newText)
  \/ \E thrown \in SessionErrors : RequestFails(thrown)
  \/ \E index \in {1, 2} : OpenSavedPlan(index)
  \/ \E form \in CheckinForms : SaveTodayCheckin(form)
  \/ SyncStart
  \/ \E granted \in BOOLEAN : CalendarAccessResult(granted)
  \/ SyncResult
  \/ \E thrown \in SessionErrors : CalendarCallFails(thrown)
  \/ RemoveStart
  \/ RemoveResult

SpecCalendar == Init /\ [][NextCalendar]_vars


(***************************************************************************)
(* clampWeekToRunDayCap on its own: one table drawn from a bounded set      *)
(***************************************************************************)
ClampHeaders ==
  {<<"Week", "Day", "Workout Type", "Details (Distance/Pace/Zone)", "Rationale">>,
   <<"Day", "Workout">>,
   <<"Workout", "Notes">>,
   <<"Day", "Workout Details">>}

ClampDays == {"Mon", "Sunday"}

ClampWorkouts == {"Easy Run", "Long Run", "Tempo", "Day Off"}

\* a row of the width of headers with the given day and workout cells
rowFor(headers, day, workout) ==
  map([h \in 1..Len(headers) |->
         IF isDayHeader(headers[h]) THEN day
         ELSE IF isWorkoutHeader(headers[h]) THEN workout
         ELSE IF isWeekHeader(headers[h]) THEN "Week 1"
         ELSE IF isDetailsHeader(headers[h]) THEN "5km"
         ELSE IF isRationaleHeader(headers[h]) THEN "base"
         ELSE "n"])

\* tables with a day cell that is an inherited key of DAY_INDEX
InheritedDayTables ==
  {[headers |-> <<"Day", "Workout">>,
    rows |-> <<<<"Sunday", "Long Run">>, <<day, "Easy Run">>, <<"Mon", "Tempo">>>>] :
     day \in {"constructor", "__PROTO__"}}

ClampTables ==
  {[headers |-> h, rows |-> map([i \in 1..Len(c) |-> rowFor(h, c[i][1], c[i][2])])] :
     h \in ClampHeaders,
     c \in UNION {[1..k -> ClampDays \X ClampWorkouts] : k \in 0..MaxRows}}
  \cup InheritedDayTables

InitClampInputs ==
  /\ clampIn \in {<<table>> : table \in ClampTables}
  /\ \E setting \in Settings :
       /\ clampCap = parseRunDayCap(setting.runDaysPerWeek)
       /\ clampLongRunDay = setting.longRunDay
  /\ clampOut = <<>>

ApplyClamp ==
  /\ clampOut = <<>>
  /\ clampOut' \in clampWeekToRunDayCap(clampIn, clampCap, clampLongRunDay)
  /\ UNCHANGED <<appVars, planVars, clampIn, clampCap, clampLongRunDay, callVars,
                 sessionVars, calendarVars>>

NextClamp == ApplyClamp

InitClampSpec == InitApp /\ InitClampInputs /\ InitCall

SpecClamp == InitClampSpec /\ [][NextClamp]_vars

(***************************************************************************)
(* clampWeekToRunDayCap on a week of eight sessions: a long run on Sunday, *)
(* a tempo run on Tuesday and six more, cap 4, long-run day Sunday          *)
(***************************************************************************)
CanonicalHeaders ==
  <<"Week", "Day", "Workout Type", "Details (Distance/Pace/Zone)", "Rationale">>

\* the day and workout of the six other sessions
OtherSessions ==
  {<<"Mon", "Intervals">>, <<"Sun", "Long Run">>, <<"Wed", "Easy Run">>,
   <<"Sat", "Long Run">>}

\* where the Sunday long run and the Tuesday tempo run stand in the table
ScenarioPlaces == {<<1, 2>>, <<8, 7>>, <<8, 4>>}

\* a row of the canonical five columns
sessionRow(day, workout) == <<"Week 1", day, workout, "8km", "aerobic">>

scenarioRows(place, others) ==
  map([i \in 1..8 |->
         IF i = place[1] THEN sessionRow("Sunday", "Long Run")
         ELSE IF i = place[2] THEN sessionRow("Tuesday", "Tempo Run")
         ELSE LET k == i - Cardinality({j \in {place[1], place[2]} : j < i})
              IN sessionRow(others[k][1], others[k][2])])

ScenarioTables ==
  {[headers |-> CanonicalHeaders, rows |-> scenarioRows(place, others)] :
     place \in ScenarioPlaces, others \in [1..6 -> OtherSessions]}

InitScenarioInputs ==
  /\ clampIn \in {<<table>> : table \in ScenarioTables}
  /\ clampCap = parseRunDayCap("4")
  /\ clampLongRunDay = "Sunday"
  /\ clampOut = <<>>

InitScenarioSpec == InitApp /\ InitScenarioInputs /\ InitCall

SpecScenario == InitScenarioSpec /\ [][NextClamp]_vars

(***************************************************************************)
(* The pure functions of App.tsx, each called once on arguments drawn from *)
(* a bounded set                                                           *)
(***************************************************************************)
\* entries of a days array: abbreviations, other case, padding, a weekday
\* named twice, blank fields, an unknown and an absent day name
DayEntries ==
  {Day("Mon", "Easy Run", "5km", "base"),
   Day(" MONDAY ", "Intervals", "", ""),
   Day("tues", " ", "x", ""),
   Day("Sun", " Long Run ", "16km", "endurance"),
   Day("Funday", "Tempo", "", ""),
   Day("", "Hill Repeats", "", "")}

SeqsUpTo(S, n) == UNION {[1..k -> S] : k \in 0..n}

\* the response texts handed to parseWeekJsonFromText
ParseTexts ==
  {[json |-> <<[week |-> week, verdict |-> "", reasoning |-> " ok ",
                daysIsArray |-> TRUE, days |-> days]>>,
    lines |-> <<"{}">>] :
     week \in {<<>>, <<3>>}, days \in SeqsUpTo(DayEntries, MaxDays)}
  \cup {MarkdownTwoTables, PlainProse}

ParseWeekJsonArgs == {[text |-> t, expectedWeek |-> 2] : t \in ParseTexts}

\* tables with and without a week column, in any case, and rows that are
\* short, full and long
WeekTableHeaders ==
  {<<"Day", "Workout">>, <<"WEEK", "Day", "Workout">>, <<"Day", "Workout", "week">>,
   <<"Weeks", "Day">>}

WeekTableRows ==
  {<<>>, <<"Mon">>, <<"Mon", "Easy Run">>, <<"Week 7", "Tue", "Tempo">>,
   <<"a", "b", "c", "d">>}

WeekTables ==
  {[headers |-> h, rows |-> r] :
     h \in WeekTableHeaders, r \in SeqsUpTo(WeekTableRows, MaxTableRows)}

WeekTableLists ==
  {<<>>} \cup {<<t>> : t \in WeekTables}
    \cup {<<t, [headers |-> h, rows |-> <<<<"Sun", "Long Run", "Week 3">>>>]>> :
            t \in WeekTables, h \in {<<"Day", "Workout", "Week">>, <<"Day", "Workout", "Notes">>}}

EnforceExpectedWeekArgs ==
  {[tables |-> tables, weekNumber |-> n] : tables \in WeekTableLists, n \in {1, 12}}

\* the week cells of the rows of a table, by row position
WeekTaggings ==
  {[i \in 1..MaxSummaryRows |-> "Week 1"],
   [i \in 1..MaxSummaryRows |-> IF i % 2 = 1 THEN "week 1" ELSE "Week 2"],
   [i \in 1..MaxSummaryRows |-> "WEEK 12"],
   [i \in 1..MaxSummaryRows |-> IF i % 3 = 0 THEN "" ELSE "Week 2"]}

\* a week table of n rows: the weekdays repeat after period rows, every
\* other row has no details
summaryTable(n, tagging, period) ==
  [headers |-> <<"Week", "Day", "Workout Type", "Details">>,
   rows |-> map([i \in 1..n |->
               <<tagging[i], WEEKDAY_NAMES[((i - 1) % period) + 1],
                 IF i % 4 = 0 THEN "Rest Day" ELSE "Easy Run",
                 IF i % 2 = 0 THEN "" ELSE ToString(i) \o "km">>])]

\* the tables that may follow the week table: one without a week column
\* and with a short row
SummaryTails ==
  {<<>>,
   <<[headers |-> <<"day", "Workout">>, rows |-> <<<<"Sat", "Strength">>, <<"Sun">>>>]>>}

SummarizeArgs ==
  {[tables |-> <<summaryTable(n, tagging, period)>> \o tail, weekNumber |-> week] :
     n \in 0..MaxSummaryRows, tagging \in WeekTaggings, period \in {1, 7},
     tail \in SummaryTails, week \in {1, 2}}

\* display tables: titles with and without a week number
CalendarTitles == {"Week 2", "Plan 1", "Taper week  12"}

CalendarHeaders ==
  {<<"Day", "Workout Type", "Details", "Rationale">>, <<"day", "Workout">>,
   <<"Workout", "Notes">>}

\* rows with a padded, an abbreviated, an unknown and an inherited day name,
\* a rest day, and a row without a workout cell
CalendarRows ==
  {<<" Wednesday ", "Intervals", "6x400m", "speed">>,
   <<"Sun", "Long Tempo Run", "", "endurance">>,
   <<"Fri", "Rest Day", "", "">>,
   <<"Funday", "Easy Run", "", "">>,
   <<"Mon">>,
   <<"constructor", "Strength", "", "">>,
   <<"tue", "Strength", "core", "">>,
   <<"thurs", "Easy Run", "", "">>}

CalendarTables ==
  {[title |-> title, headers |-> h, rows |-> r] :
     title \in CalendarTitles, h \in CalendarHeaders,
     r \in SeqsUpTo(CalendarRows, MaxEventRows)}

BuildTable ==
  [title |-> "Build", headers |-> <<"Day", "Workout Type", "Details", "Rationale">>,
   rows |-> <<<<"Sat", "Speed work", "", "">>>>]

CalendarTableLists ==
  {<<t>> : t \in CalendarTables} \cup {<<BuildTable, t>> : t \in CalendarTables}

\* 2024-06-03, a Monday, is day 19877: midnight UTC, midnight at UTC-8 and
\* midnight at UTC+2; or no start date
PlanStartDates ==
  {<<>>, <<[day |-> 19877, minute |-> 0]>>, <<[day |-> 19877, minute |-> 480]>>,
   <<[day |-> 19876, minute |-> 1320]>>}

TimeZones == {0 - 480, 120}

CalendarArgs ==
  {[tables |-> tables, planStartDateIso |-> iso, now |-> ClockNow, tz |-> tz] :
     tables \in CalendarTableLists, iso \in PlanStartDates, tz \in TimeZones}

InitCallInputs ==
  /\ \/ callee = "parseWeekJsonFromText" /\ args \in ParseWeekJsonArgs
     \/ callee = "enforceExpectedWeek" /\ args \in EnforceExpectedWeekArgs
     \/ callee = "summarizeWeekForHistory" /\ args \in SummarizeArgs
     \/ callee = "toCalendarEvents" /\ args \in CalendarArgs
  /\ result = <<>>

CallParseWeekJson ==
  /\ callee = "parseWeekJsonFromText"
  /\ result = <<>>
  /\ result' = <<parseWeekJsonFromText(args.text, args.expectedWeek)>>
  /\ UNCHANGED <<appVars, planVars, clampVars, callee, args, sessionVars,
                 calendarVars>>

CallEnforceExpectedWeek ==
  /\ callee = "enforceExpectedWeek"
  /\ result = <<>>
  /\ result' = <<enforceExpectedWeek(args.tables, args.weekNumber)>>
  /\ UNCHANGED <<appVars, planVars, clampVars, callee, args, sessionVars,
                 calendarVars>>

\* enforceExpectedWeek called on its own result
CallEnforceExpectedWeekAgain ==
  /\ callee = "enforceExpectedWeek"
  /\ Len(result) = 1
  /\ result' = Append(result, enforceExpectedWeek(result[1], args.weekNumber))
  /\ UNCHANGED <<appVars, planVars, clampVars, callee, args, sessionVars,
                 calendarVars>>

CallSummarizeWeekForHistory ==
  /\ callee = "summarizeWeekForHistory"
  /\ result = <<>>
  /\ result' = <<summarizeWeekForHistory(args.tables, args.weekNumber)>>
  /\ UNCHANGED <<appVars, planVars, clampVars, callee, args, sessionVars,
                 calendarVars>>

CallToCalendarEvents ==
  /\ callee = "toCalendarEvents"
  /\ result = <<>>
  /\ result' = <<toCalendarEvents(args.tables, args.planStartDateIso, args.now, args.tz)>>
  /\ UNCHANGED <<appVars, planVars, clampVars, callee, args, sessionVars,
                 calendarVars>>

NextCalls ==
  \/ CallParseWeekJson
  \/ CallToCalendarEvents
  \/ CallSummarizeWeekForHistory
  \/ CallEnforceExpectedWeek
  \/ CallEnforceExpectedWeekAgain

InitCallsSpec == InitApp /\ InitClamp /\ InitCallInputs

SpecCalls == InitCallsSpec /\ [][NextCalls]_vars

(***************************************************************************)
(* Vocabulary of the properties                                            *)
(***************************************************************************)
\* the positions of the rows of a table that are not rest-like
NonRestRows(table) ==
  LET workoutIndex == workoutIndexOf(table.headers)
  IN IF workoutIndex = 0 THEN {}
     ELSE {i \in 1..Len(table.rows) :
             ~isRestLikeWorkout(cell(table.rows[i], workoutIndex, ""))}

RECURSIVE NonRestTotal(_)
NonRestTotal(tables) ==
  IF Len(tables) = 0 THEN 0
  ELSE Cardinality(NonRestRows(tables[1])) + NonRestTotal(Tail(tables))

RunDayCap == parseRunDayCap(input.runDaysPerWeek)

\* a step that completes a week, and the tables that step appends
WeekCompletes == Len(partResponses') = Len(partResponses) + 1

AppendedTables ==
  SubSeq(accumulatedTables', Len(accumulatedTables) + 1, Len(accumulatedTables'))

\* the mode of the last request issued for week k
LastModeOfWeek(k) ==
  LET at == {i \in 1..Len(nextDebugPrompts) : nextDebugPrompts[i].week = k}
  IN nextDebugPrompts[CHOOSE i \in at : \A j \in at : j <= i].mode

CorrectiveModes == {"full-corrective", "compact-corrective"}

\* a step in which a generation request fails, and what it threw
RequestFailure ==
  /\ pc \in RequestModes
  /\ \/ failure' # failure /\ failure' # <<>>
     \/ caught' # caught /\ caught' # <<>>

Thrown == IF failure' # failure THEN failure'[1] ELSE caught'[1]

IsPrefix(a, b) == Len(a) <= Len(b) /\ SubSeq(b, 1, Len(a)) = a

(***************************************************************************)
(* C1: for a table with more than cap non-rest-like rows, the result of    *)
(* clampWeekToRunDayCap has exactly cap non-rest-like rows, which are       *)
(* unmodified non-rest-like rows of the input, and the same headers, the   *)
(* same number of rows and the same row widths.                            *)
(***************************************************************************)
C1_ExactlyCapRemain ==
  clampOut # <<>> =>
    LET in == clampIn[1]
        out == clampOut[1]
    IN Cardinality(NonRestRows(in)) > clampCap =>
         /\ Cardinality(NonRestRows(out)) = clampCap
         /\ NonRestRows(out) \subseteq NonRestRows(in)
         /\ \A i \in NonRestRows(out) : out.rows[i] = in.rows[i]
         /\ out.headers = in.headers
         /\ Len(out.rows) = Len(in.rows)
         /\ \A i \in 1..Len(in.rows) : Len(out.rows[i]) = Len(in.rows[i])

(***************************************************************************)
(* C2: the tables appended to the accumulated list for a week hold at most *)
(* run-day-cap non-rest-like rows in total, whichever path produced them.  *)
(***************************************************************************)
C2_WeekWithinCap ==
  [][WeekCompletes => NonRestTotal(AppendedTables) <= RunDayCap]_vars

(***************************************************************************)
(* C3: every row of every table appended for week k carries the week cell  *)
(* "Week k", k being the orchestrator's expected week number.              *)
(***************************************************************************)
C3_RowsTaggedWithExpectedWeek ==
  [][WeekCompletes =>
       \A t \in 1..Len(AppendedTables) :
         LET table == AppendedTables[t]
             weekIndex == weekIndexOf(table.headers)
         IN /\ weekIndex # 0
            /\ \A r \in 1..Len(table.rows) :
                 table.rows[r][weekIndex] = weekLabel(expectedWeekNumber)]_vars

(***************************************************************************)
(* C4: a compact request is issued exactly when the full request of that   *)
(* week itself failed with a context-window error: in the request log a    *)
(* compact request directly follows the full request of its week, never a  *)
(* full-corrective one.                                                    *)
(***************************************************************************)
C4_CompactOnlyAfterFull ==
  \A i \in 1..Len(nextDebugPrompts) :
    nextDebugPrompts[i].mode = "compact" =>
      /\ i > 1
      /\ nextDebugPrompts[i - 1].mode = "full"
      /\ nextDebugPrompts[i - 1].week = nextDebugPrompts[i].week
      /\ (i = Len(nextDebugPrompts) /\ pc = "compact" =>
            /\ caught # <<>>
            /\ looksLikeContextWindowError(messageOf(caught[1], "Unknown planning error.")))

(***************************************************************************)
(* C5: within one week a corrective request directly follows the full or   *)
(* the compact request of that week, each at most once, and the request    *)
(* after a corrective one is the next week's full request (or the compact  *)
(* request after a failed full-corrective one): the corrective response is *)
(* accepted without another count.                                         *)
(***************************************************************************)
C5_SingleCorrective ==
  \A i \in 1..Len(nextDebugPrompts) :
    LET entry == nextDebugPrompts[i]
    IN entry.mode \in CorrectiveModes =>
         /\ i > 1
         /\ nextDebugPrompts[i - 1].week = entry.week
         /\ nextDebugPrompts[i - 1].mode =
              (IF entry.mode = "full-corrective" THEN "full" ELSE "compact")
         /\ \A j \in 1..Len(nextDebugPrompts) :
              j # i /\ nextDebugPrompts[j].week = entry.week =>
                nextDebugPrompts[j].mode # entry.mode
         /\ i < Len(nextDebugPrompts) =>
              \/ /\ nextDebugPrompts[i + 1].week = entry.week + 1
                 /\ nextDebugPrompts[i + 1].mode = "full"
              \/ /\ entry.mode = "full-corrective"
                 /\ nextDebugPrompts[i + 1].week = entry.week
                 /\ nextDebugPrompts[i + 1].mode = "compact"
         /\ i = Len(nextDebugPrompts) => pc \in {entry.mode, "idle"}

\* a week was completed by a corrective response that still exceeds the cap
C5_Witness ==
  \E k \in 1..Len(partResponses) :
    /\ LastModeOfWeek(k) \in CorrectiveModes
    /\ countPlannedRunDays(normalizedTablesOf(partResponses[k], k)) > RunDayCap

(***************************************************************************)
(* C6: the corrective request is issued exactly when the distinct non-rest *)
(* weekdays of the full (or compact) response exceed the run-day cap.      *)
(***************************************************************************)
C6_CorrectiveIffOverCap ==
  /\ pc \in CorrectiveModes =>
       countPlannedRunDays(normalizedTablesOf(text, expectedWeekNumber)) > RunDayCap
  /\ \A k \in 1..Len(partResponses) :
       LastModeOfWeek(k) \notin CorrectiveModes =>
         countPlannedRunDays(normalizedTablesOf(partResponses[k], k)) <= RunDayCap

\* week 1 was accepted without correction, week 2 awaits a compact-corrective
C6_Witness ==
  /\ Len(partResponses) = 1
  /\ LastModeOfWeek(1) = "full"
  /\ countPlannedRunDays(normalizedTablesOf(partResponses[1], 1)) = RunDayCap
  /\ pc = "compact-corrective"

(***************************************************************************)
(* C7: a request failure that is not a context-window error, or any        *)
(* failure on the compact path, leaves buildWeeklyPlan with the error      *)
(* thrown: nothing is appended for the week and no request is issued       *)
(* afterwards.                                                             *)
(***************************************************************************)
C7_FatalFailureAborts ==
  [][/\ (/\ RequestFailure
         /\ \/ pc \in {"compact", "compact-corrective"}
            \/ ~looksLikeContextWindowError(messageOf(Thrown, "Unknown planning error.")))
        => /\ failure' = <<Thrown>>
           /\ error' = messageOf(Thrown, "Unknown error while generating health insights.")
           /\ pc' = "idle"
           /\ ~healthLoading'
           /\ UNCHANGED <<accumulatedTables, partResponses, historySummaries,
                          nextDebugPrompts>>
     /\ pc \in {"idle", "auth"} => nextDebugPrompts' \in {nextDebugPrompts, <<>>}]_vars

\* week 2 aborted on the compact path
C7_Witness ==
  /\ pc = "idle"
  /\ failure # <<>>
  /\ caught # <<>>
  /\ expectedWeekNumber = 2
  /\ Len(partResponses) = 1

(***************************************************************************)
(* C8: when the pipeline aborts during week k, the published response and  *)
(* planTables stay what was published after week k-1.                      *)
(***************************************************************************)
C8_NoRollback ==
  [][(pc \in RequestModes /\ failure' # failure /\ failure' # <<>>) =>
       /\ response' = response
       /\ planTables' = planTables
       /\ planTables = accumulatedTables
       /\ Len(response) = expectedWeekNumber - 1
       /\ \A i \in 1..Len(response) : response[i].text = partResponses[i]]_vars

\* week 2 aborted while the tables of week 1 are on display
C8_Witness ==
  /\ pc = "idle"
  /\ failure # <<>>
  /\ expectedWeekNumber = 2
  /\ Len(response) = 1
  /\ Len(planTables) >= 1

C10_PublishOncePerWeek ==
  [][/\ partialPublishCount' = Len(partResponses')
     /\ IF WeekCompletes
        THEN /\ partialPublishCount' = partialPublishCount + 1
             /\ planTables' = accumulatedTables'
             /\ IsPrefix(planTables, planTables')
             /\ IsPrefix(response, response')
             /\ Len(response') = Len(partResponses')
             /\ \A i \in 1..Len(response') :
                  response'[i] = [title |-> "## Week " \o ToString(i),
                                  text |-> partResponses'[i]]
        ELSE \/ UNCHANGED <<planTables, response, partialPublishCount>>
             \/ /\ pc' = "auth"
                /\ planTables' = <<>>
                /\ response' = <<>>
                /\ partialPublishCount' = 0]_vars

\* the tables of week 1 are on display while week 2 is being requested
C10_Witness ==
  /\ pc \in RequestModes
  /\ partialPublishCount = 1
  /\ expectedWeekNumber = 2
  /\ Len(planTables) >= 1
  /\ planTables = accumulatedTables

(***************************************************************************)
(* C11: a run whose requests are answered reaches the normal return of     *)
(* buildWeeklyPlan (a run ends otherwise only by a failed request), and at *)
(* the normal return all N weeks have completed: the narrative shown has   *)
(* one section per week 1..N in order, each with that week's accepted      *)
(* response, and the tables shown are the whole accumulated list.          *)
(***************************************************************************)
ReturnedNormally ==
  pc = "idle" /\ ~healthLoading /\ failure = <<>> /\ expectedWeekNumber > 0

C11_TerminalState ==
  /\ [](ReturnedNormally =>
         /\ Len(partResponses) = input.planLengthWeeks
         /\ Len(historySummaries) = input.planLengthWeeks
         /\ Len(response) = input.planLengthWeeks
         /\ \A k \in 1..Len(response) :
              response[k] = [title |-> "## Week " \o ToString(k),
                             text |-> partResponses[k]]
         /\ planTables = accumulatedTables
         /\ debugPrompts = nextDebugPrompts)
  /\ (pc \in RequestModes ~> (ReturnedNormally \/ failure # <<>>))

\* the run returned after its last week, which needed the compact request
C11_Witness ==
  /\ ReturnedNormally
  /\ Len(partResponses) = MaxWeeks
  /\ LastModeOfWeek(MaxWeeks) = "compact"
  /\ accumulatedTables # <<>>

(***************************************************************************)
(* C12: for a JSON object whose days field is a list of day objects,       *)
(* parseWeekJsonFromText yields exactly 7 days, Monday..Sunday in order;   *)
(* the entry of a weekday is taken from the first input entry that names   *)
(* it (full name or abbreviation, any case, padded or not), blank fields   *)
(* defaulted, and a weekday no entry names is the default rest day,        *)
(* whatever the order, the duplicates and the unrecognized names of the    *)
(* input.                                                                  *)
(***************************************************************************)
DayAliases ==
  <<{"monday", "mon"}, {"tuesday", "tue", "tues"}, {"wednesday", "wed"},
    {"thursday", "thu", "thurs"}, {"friday", "fri"}, {"saturday", "sat"},
    {"sunday", "sun"}>>

CanonicalDays ==
  <<"Monday", "Tuesday", "Wednesday", "Thursday", "Friday", "Saturday", "Sunday">>

\* the positions of the entries of days that name weekday d
Naming(days, d) == {i \in 1..Len(days) : toLowerCase(trim(days[i].day)) \in DayAliases[d]}

ParseCallReturned == callee = "parseWeekJsonFromText" /\ result # <<>>

C12_SevenDaysFirstWins ==
  (/\ ParseCallReturned
   /\ args.text.json # <<>>
   /\ args.text.json[1].daysIsArray) =>
    LET days == args.text.json[1].days
        week == result[1]
    IN /\ week # <<>>
       /\ Len(week[1].days) = 7
       /\ \A d \in 1..7 :
            LET out == week[1].days[d]
                hits == Naming(days, d)
            IN /\ out.day = CanonicalDays[d]
               /\ IF hits = {}
                  THEN out = [day |-> CanonicalDays[d], workoutType |-> "Rest Day",
                              details |-> "Recovery / mobility",
                              rationale |-> "Load management"]
                  ELSE LET entry == days[CHOOSE i \in hits : \A j \in hits : i <= j]
                       IN /\ out.workoutType =
                               (IF trim(entry.workoutType) = "" THEN "Rest Day"
                                ELSE trim(entry.workoutType))
                          /\ out.details =
                               (IF trim(entry.details) = "" THEN "Recovery / mobility"
                                ELSE trim(entry.details))
                          /\ out.rationale =
                               (IF trim(entry.rationale) = "" THEN "Load management"
                                ELSE trim(entry.rationale))

\* Monday is named twice, in upper case first, after an unrecognized entry
C12_Witness ==
  /\ ParseCallReturned
  /\ args.text.json # <<>>
  /\ args.text.json[1].daysIsArray
  /\ Len(args.text.json[1].days) = 3
  /\ args.text.json[1].days[1].day = "Funday"
  /\ args.text.json[1].days[2].day = " MONDAY "
  /\ args.text.json[1].days[3].day = "Mon"
  /\ result[1][1].days[1].workoutType = "Intervals"
  /\ result[1][1].days[7].workoutType = "Rest Day"

(***************************************************************************)
(* C13: enforceExpectedWeek applied to its own result, with the same week  *)
(* number, returns that result: the second application changes nothing,    *)
(* whether or not the tables had a week header, in any case.               *)
(***************************************************************************)
C13_EnforceIdempotent ==
  (callee = "enforceExpectedWeek" /\ Len(result) = 2) => result[2] = result[1]

\* a table without a week header got one, and a second application was made
C13_Witness ==
  /\ callee = "enforceExpectedWeek"
  /\ Len(result) = 2
  /\ Len(args.tables) = 2
  /\ args.tables[1].headers = <<"Day", "Workout">>
  /\ Len(args.tables[1].rows) = 2
  /\ result[1][1].headers = <<"Week", "Day", "Workout">>
  /\ result[1][2].headers = <<"Day", "Workout", "Week">>

(***************************************************************************)
(* C14: a table whose non-rest-like rows number at most the cap comes out  *)
(* of clampWeekToRunDayCap unchanged: same headers, same rows, same cells. *)
(***************************************************************************)
C14_UnchangedWithinCap ==
  clampOut # <<>> =>
    /\ Len(clampOut) = Len(clampIn)
    /\ \A t \in 1..Len(clampIn) :
         Cardinality(NonRestRows(clampIn[t])) <= clampCap => clampOut[t] = clampIn[t]

\* a table with a rest-like row and exactly cap non-rest-like rows was clamped
C14_Witness ==
  /\ clampOut # <<>>
  /\ Len(clampIn[1].rows) = 3
  /\ dayIndexOf(clampIn[1].headers) # 0
  /\ Cardinality(NonRestRows(clampIn[1])) = clampCap
  /\ clampOut = clampIn

(***************************************************************************)
(* C15: a week table with 8 non-rest rows, among them a long run on Sunday *)
(* and a tempo run on Tuesday, clamped with cap 4 and long-run day Sunday, *)
(* keeps exactly 4 non-rest rows, a Sunday long run and a Tuesday tempo    *)
(* run among them, whatever the other six rows are.                        *)
(***************************************************************************)
\* the rows of out that are not rest-like and are as they were in in
KeptRows(in, out) == {i \in NonRestRows(out) : out.rows[i] = in.rows[i]}

IsLongRunOn(row, day) ==
  /\ toLowerCase(row[2]) \in DayAliases[day]
  /\ includes(toLowerCase(row[3]), "long")

IsTempoRunOn(row, day) ==
  /\ toLowerCase(row[2]) \in DayAliases[day]
  /\ includes(toLowerCase(row[3]), "tempo")

IsQualitySession(row) ==
  \E word \in {"interval", "tempo", "threshold", "hill", "speed"} :
    includes(toLowerCase(row[3]), word)

ScenarioHolds(in, out) ==
  /\ Cardinality(NonRestRows(out)) = 4
  /\ \E i \in KeptRows(in, out) : IsLongRunOn(in.rows[i], 7)
  /\ \E i \in KeptRows(in, out) : IsTempoRunOn(in.rows[i], 2)

WellShaped(table) ==
  \A r \in 1..Len(table.rows) :
    /\ Len(table.rows[r]) = Len(table.headers)
    /\ \A c \in 1..Len(table.rows[r]) : table.rows[r][c] # undefined

IsPipe(line) ==
  Len(line) > 0 /\ SubSeq(line, 1, 1) = "|" /\ SubSeq(line, Len(line), Len(line)) = "|"

\* the first line of the run of pipe lines that line l stands in
BlockStart(lines, l) ==
  CHOOSE b \in 1..l :
    /\ \A j \in b..l : IsPipe(lines[j])
    /\ b = 1 \/ ~IsPipe(lines[b - 1])

\* the data rows of the tables written in lines: the pipe lines from the
\* third of a run on, when the second line of the run is a separator
IsDataLine(lines, l) ==
  /\ IsPipe(lines[l])
  /\ l >= BlockStart(lines, l) + 2
  /\ includes(lines[BlockStart(lines, l) + 1], "---")

CellsOf(line) ==
  LET parts == split(SubSeq(line, 2, Len(line) - 1), "|")
  IN map([i \in 1..Len(parts) |-> trim(parts[i])])

Repaired(cells, width) ==
  IF Len(cells) > width
  THEN map([i \in 1..width |->
              IF i < width THEN cells[i] ELSE join(SubSeq(cells, width, Len(cells)), " | ")])
  ELSE map([i \in 1..width |-> IF i <= Len(cells) THEN cells[i] ELSE ""])

RECURSIVE ExpectedRows(_, _)
ExpectedRows(lines, l) ==
  IF l > Len(lines) THEN <<>>
  ELSE (IF IsDataLine(lines, l)
        THEN <<Repaired(CellsOf(lines[l]), Len(CellsOf(lines[BlockStart(lines, l)])))>>
        ELSE <<>>) \o ExpectedRows(lines, l + 1)

RECURSIVE AllRows(_)
AllRows(tables) ==
  IF Len(tables) = 0 THEN <<>> ELSE tables[1].rows \o AllRows(Tail(tables))

C16_CanonicalShape ==
  /\ \A t \in 1..Len(accumulatedTables) : WellShaped(accumulatedTables[t])
  /\ \A t \in 1..Len(planTables) : WellShaped(planTables[t])
  /\ LET parsed == parseMarkdownTables(text)
         structuredWeek == parseWeekJsonFromText(text, expectedWeekNumber)
     IN /\ \A t \in 1..Len(parsed) : WellShaped(parsed[t]) /\ Len(parsed[t].rows) > 0
        /\ AllRows(parsed) =
             ExpectedRows(map([i \in 1..Len(text.lines) |-> trim(text.lines[i])]), 1)
        /\ structuredWeek # <<>> =>
             /\ WellShaped(structuredWeekToTable(structuredWeek[1]))
             /\ Len(structuredWeekToTable(structuredWeek[1]).rows) = 7

\* a markdown week was accumulated: its long row was merged, its short row
\* padded, a week column was added to its second table and a row demoted
C16_Witness ==
  /\ Len(accumulatedTables) = 2
  /\ text = MarkdownTwoTables
  /\ accumulatedTables[1].rows[2][4] = "6km | Z4"
  /\ accumulatedTables[1].rows[3] = <<"Week 1", "Fri", "Day Off", "">>
  /\ accumulatedTables[2].headers = <<"Week", "day", "Workout Type">>
  /\ \E r \in 1..Len(accumulatedTables[1].rows) :
       accumulatedTables[1].rows[r][3] = "Rest Day"

(***************************************************************************)
(* C17: a response that holds neither a JSON object with a days list nor a *)
(* markdown table completes its week: no error, no corrective request; the *)
(* accumulated tables stay as they are, the response text is kept, the     *)
(* history digest of the week is its header line alone, and the next       *)
(* week's full request follows (or the run returns after the last week).   *)
(***************************************************************************)
ZeroTable(t) ==
  /\ t.json = <<>> \/ ~t.json[1].daysIsArray
  /\ \A l \in 1..Len(t.lines) :
       ~IsDataLine(map([i \in 1..Len(t.lines) |-> trim(t.lines[i])]), l)

C17_ZeroTableWeek ==
  [][(ResponseStep /\ ZeroTable(text')) =>
       /\ partResponses' = Append(partResponses, text')
       /\ accumulatedTables' = accumulatedTables
       /\ planTables' = accumulatedTables
       /\ historySummaries' =
            Append(historySummaries,
                   "Week " \o ToString(expectedWeekNumber) \o " Summary:")
       /\ error' = ""
       /\ failure' = <<>>
       /\ IF expectedWeekNumber < input.planLengthWeeks
          THEN /\ pc' = "full"
               /\ expectedWeekNumber' = expectedWeekNumber + 1
               /\ Len(nextDebugPrompts') = Len(nextDebugPrompts) + 1
               /\ nextDebugPrompts'[Len(nextDebugPrompts')].week = expectedWeekNumber + 1
               /\ nextDebugPrompts'[Len(nextDebugPrompts')].mode = "full"
          ELSE /\ pc' = "idle"
               /\ ~healthLoading'
               /\ nextDebugPrompts' = nextDebugPrompts]_vars

\* week 1 was answered with prose on its full request, week 2 is requested
C17_Witness ==
  /\ pc = "full"
  /\ expectedWeekNumber = 2
  /\ partResponses = <<PlainProse>>
  /\ LastModeOfWeek(1) = "full"
  /\ accumulatedTables = <<>>
  /\ historySummaries = <<"Week 1 Summary:">>

(***************************************************************************)
(* C18: the digest summarizeWeekForHistory yields is the line              *)
(* 'Week n Summary:' followed by at most 7 bullet lines, which are the     *)
(* bullets of the first rows that belong to week n, in table and row       *)
(* order.  A row belongs when its table has no week column, when its week  *)
(* cell is blank, or when its week cell contains 'week n' in any case.     *)
(***************************************************************************)
BelongsToWeek(table, row, n) ==
  LET weekIndex == weekIndexOf(table.headers)
  IN \/ weekIndex = 0
     \/ weekIndex > Len(row)
     \/ row[weekIndex] = ""
     \/ includes(toLowerCase(row[weekIndex]), "week " \o ToString(n))

\* the bullet of a row: '- day: workout', with ' (details)' when there are
BulletOf(table, row) ==
  LET dayIndex == dayIndexOf(table.headers)
      workoutIndex == workoutIndexOf(table.headers)
      detailsIndex == detailsIndexOf(table.headers)
      day == IF dayIndex \in 1..Len(row) THEN row[dayIndex] ELSE "Day"
      workout == IF workoutIndex \in 1..Len(row) THEN row[workoutIndex] ELSE "Run"
      details == IF detailsIndex \in 1..Len(row) THEN row[detailsIndex] ELSE ""
  IN IF details = "" THEN "- " \o day \o ": " \o workout
     ELSE "- " \o day \o ": " \o workout \o " (" \o details \o ")"

RECURSIVE BulletsOfRows(_, _, _)
BulletsOfRows(table, r, n) ==
  IF r > Len(table.rows) THEN <<>>
  ELSE (IF BelongsToWeek(table, table.rows[r], n)
        THEN <<BulletOf(table, table.rows[r])>> ELSE <<>>)
         \o BulletsOfRows(table, r + 1, n)

RECURSIVE BulletsOf(_, _)
BulletsOf(tables, n) ==
  IF Len(tables) = 0 THEN <<>>
  ELSE BulletsOfRows(tables[1], 1, n) \o BulletsOf(Tail(tables), n)

SummarizeReturned == callee = "summarizeWeekForHistory" /\ result # <<>>

C18_DigestAtMostSevenBullets ==
  SummarizeReturned =>
    LET digest == split(result[1], "\n")
        bullets == BulletsOf(args.tables, args.weekNumber)
    IN /\ digest[1] = "Week " \o ToString(args.weekNumber) \o " Summary:"
       /\ Len(digest) - 1 <= 7
       /\ Len(digest) - 1 = (IF Len(bullets) < 7 THEN Len(bullets) ELSE 7)
       /\ \A i \in 2..Len(digest) : digest[i] = bullets[i - 1]

\* nine rows of week 1 that all name Monday, and a second table: the
\* digest has seven bullets
C18_Witness ==
  /\ SummarizeReturned
  /\ args.weekNumber = 1
  /\ Len(args.tables) = 2
  /\ Len(args.tables[1].rows) = 9
  /\ \A r \in 1..9 : args.tables[1].rows[r][1] = "Week 1" /\ args.tables[1].rows[r][2] = "Monday"
  /\ Len(split(result[1], "\n")) = 8

(***************************************************************************)
(* Vocabulary of the calendar properties                                   *)
(***************************************************************************)
\* the weekday offset 0..6 a day cell names, <<>> if it names none
WeekdayOffset(dayCell) ==
  LET named == {d \in 1..7 : toLowerCase(trim(dayCell)) \in DayAliases[d]}
  IN IF named = {} THEN <<>> ELSE <<(CHOOSE d \in named : TRUE) - 1>>

HasDayAndWorkout(table) ==
  dayIndexOf(table.headers) # 0 /\ workoutIndexOf(table.headers) # 0

DayCellOf(table, row) ==
  IF dayIndexOf(table.headers) \in 1..Len(row) THEN row[dayIndexOf(table.headers)] ELSE ""

WorkoutOf(table, row) ==
  IF workoutIndexOf(table.headers) \in 1..Len(row)
  THEN row[workoutIndexOf(table.headers)] ELSE "Run"

IsRestLike(workout) ==
  includes(toLowerCase(workout), "rest") \/ includes(toLowerCase(workout), "off")

\* the rows that are to give an event, as <<table, row>> positions in
\* table-then-row order
RECURSIVE EventRowsFrom(_, _, _)
EventRowsFrom(tables, t, r) ==
  IF t > Len(tables) THEN <<>>
  ELSE IF r > Len(tables[t].rows) THEN EventRowsFrom(tables, t + 1, 1)
  ELSE (IF /\ HasDayAndWorkout(tables[t])
           /\ WeekdayOffset(DayCellOf(tables[t], tables[t].rows[r])) # <<>>
           /\ ~IsRestLike(WorkoutOf(tables[t], tables[t].rows[r]))
        THEN <<<<t, r>>>> ELSE <<>>) \o EventRowsFrom(tables, t, r + 1)

\* the week number of the table at position t: from its title, else t
TableWeek(tables, t) == extractWeekNumber(tables[t].title, t)

\* the local calendar day the plan is anchored at: that of the start date,
\* else the first Monday after the local day of now
AnchorDay ==
  IF args.planStartDateIso # <<>>
  THEN (args.planStartDateIso[1].day * 1440 + args.planStartDateIso[1].minute + args.tz) \div 1440
  ELSE LET today == (args.now + args.tz) \div 1440
       IN CHOOSE m \in (today + 1)..(today + 7) : (m + 4) % 7 = 1

\* the local day and minute of an ISO timestamp
LocalDayOf(iso) == (iso.day * 1440 + iso.minute + args.tz) \div 1440
LocalMinuteOf(iso) == (iso.day * 1440 + iso.minute + args.tz) % 1440
MinutesBetween(from, to) == (to.day * 1440 + to.minute) - (from.day * 1440 + from.minute)

DurationOf(workout) ==
  LET w == toLowerCase(workout)
  IN CASE includes(w, "long") -> 90
       [] ~includes(w, "long")
            /\ (includes(w, "interval") \/ includes(w, "tempo") \/ includes(w, "speed")) -> 70
       [] OTHER ->
            IF includes(w, "recovery") \/ includes(w, "easy") THEN 50
            ELSE IF includes(w, "strength") THEN 45 ELSE 60

CalendarReturned ==
  callee = "toCalendarEvents" /\ result # <<>> /\ ~result[1].threw

(***************************************************************************)
(* C19: the event of a non-rest row whose day resolves to offset d, in a   *)
(* table of week w, starts on the local calendar day                       *)
(* anchor + (w - 1) * 7 + d at 07:00 local and ends duration minutes       *)
(* later, the duration being 90 for long, else 70 for interval, tempo or   *)
(* speed, else 50 for recovery or easy, else 45 for strength, else 60.     *)
(***************************************************************************)
C19_EventTiming ==
  CalendarReturned =>
    LET events == result[1].events
        rows == EventRowsFrom(args.tables, 1, 1)
    IN \A k \in 1..Len(events) :
         k <= Len(rows) =>
           LET t == rows[k][1]
               row == args.tables[t].rows[rows[k][2]]
               d == WeekdayOffset(DayCellOf(args.tables[t], row))[1]
           IN /\ LocalDayOf(events[k].startDate) =
                   AnchorDay + (TableWeek(args.tables, t) - 1) * 7 + d
              /\ LocalMinuteOf(events[k].startDate) = 7 * 60
              /\ MinutesBetween(events[k].startDate, events[k].endDate) =
                   DurationOf(WorkoutOf(args.tables[t], row))

\* the plan starts on Monday 2024-06-03 (local midnight at UTC-8); the
\* Wednesday interval row of the Week 2 table gives an event on 2024-06-12
\* (day 19886) at 07:00 local, 15:00 UTC, of 70 minutes
C19_Witness ==
  /\ CalendarReturned
  /\ args.tz = 0 - 480
  /\ args.planStartDateIso = <<[day |-> 19877, minute |-> 480]>>
  /\ Len(args.tables) = 1
  /\ args.tables[1].title = "Week 2"
  /\ args.tables[1].rows = <<<<" Wednesday ", "Intervals", "6x400m", "speed">>>>
  /\ Len(result[1].events) = 1
  /\ result[1].events[1].startDate = [day |-> 19886, minute |-> 15 * 60]
  /\ result[1].events[1].endDate = [day |-> 19886, minute |-> 15 * 60 + 70]

(***************************************************************************)
(* C20: toCalendarEvents returns exactly one event, in table-then-row      *)
(* order, for each row that is not rest-like and whose day cell names a    *)
(* weekday, in a table with a day and a workout column; rest-like rows,    *)
(* rows with unrecognized days and the rows of a table without a day or a  *)
(* workout column give no event; the title of an event carries the week    *)
(* number of its table (from the table title, else position + 1).          *)
(***************************************************************************)
C20_OneEventPerRunnableRow ==
  (callee = "toCalendarEvents" /\ result # <<>>) =>
    LET events == result[1].events
        rows == EventRowsFrom(args.tables, 1, 1)
    IN /\ ~result[1].threw
       /\ Len(events) = Len(rows)
       /\ \A k \in 1..Len(events) :
            k <= Len(rows) =>
              LET t == rows[k][1]
                  row == args.tables[t].rows[rows[k][2]]
              IN events[k].title =
                   "Frunna W" \o ToString(TableWeek(args.tables, t)) \o ": "
                     \o WorkoutOf(args.tables[t], row)

(***************************************************************************)
(* C25: the compact request of week k is built for week k from the input   *)
(* of the full request of that week with the workout narrative cut to its  *)
(* first at most 3 entries, the VO2, distance and step trends relabeled,   *)
(* the same history context (the digests of weeks 1..k-1) and every other  *)
(* field equal.                                                            *)
(***************************************************************************)
RelabeledFields == {"workoutNarrative", "vo2Trend", "distanceTrend", "stepTrend"}

FirstThree(narrative) ==
  [i \in 1..(IF Len(narrative) <= 3 THEN Len(narrative) ELSE 3) |-> narrative[i]]

C25_CompactInput ==
  \A i \in 1..Len(nextDebugPrompts) :
    nextDebugPrompts[i].mode = "compact" =>
      \E j \in 1..(i - 1) :
        LET compact == nextDebugPrompts[i].prompt
            full == nextDebugPrompts[j].prompt
        IN /\ nextDebugPrompts[j].mode = "full"
           /\ nextDebugPrompts[j].week = nextDebugPrompts[i].week
           /\ compact.week = nextDebugPrompts[i].week
           /\ compact.fixes = <<>>
           /\ DOMAIN compact.input = DOMAIN full.input
           /\ compact.input.workoutNarrative = FirstThree(full.input.workoutNarrative)
           /\ compact.input.vo2Trend = "VO2: " \o full.input.vo2Trend
           /\ compact.input.distanceTrend = "Distance: " \o full.input.distanceTrend
           /\ compact.input.stepTrend = "Steps: " \o full.input.stepTrend
           /\ compact.input.historyContext =
                join(SubSeq(historySummaries, 1, nextDebugPrompts[i].week - 1), "\n\n")
           /\ \A f \in DOMAIN full.input \ RelabeledFields :
                compact.input[f] = full.input[f]

\* a compact request of week 2 whose narrative was cut from six entries to
\* three and whose history context is the digest of week 1
C25_Witness ==
  \E i \in 1..Len(nextDebugPrompts) :
    /\ nextDebugPrompts[i].mode = "compact"
    /\ nextDebugPrompts[i].week = 2
    /\ Len(input.workoutNarrative) = 6
    /\ Len(nextDebugPrompts[i].prompt.input.workoutNarrative) = 3
    /\ nextDebugPrompts[i].prompt.input.historyContext = historySummaries[1]

(***************************************************************************)
(* C27: for every week the request log holds at most 4 requests and at     *)
(* most one compact request, their modes being in the order full,          *)
(* full-corrective, compact, compact-corrective (some possibly absent)     *)
(* and starting with full; a request that fails on the compact path ends   *)
(* the run without another request.                                        *)
(***************************************************************************)
ModeRank ==
  [m \in RequestModes |->
     CASE m = "full" -> 1 [] m = "full-corrective" -> 2
       [] m = "compact" -> 3 [] m = "compact-corrective" -> 4]

RequestsOfWeek(k) == {i \in 1..Len(nextDebugPrompts) : nextDebugPrompts[i].week = k}

WeeksRequested == {nextDebugPrompts[i].week : i \in 1..Len(nextDebugPrompts)}

RequestBound ==
  \A k \in WeeksRequested :
    LET at == RequestsOfWeek(k)
        first == CHOOSE i \in at : \A j \in at : i <= j
    IN /\ Cardinality(at) <= 4
       /\ Cardinality({i \in at : nextDebugPrompts[i].mode = "compact"}) <= 1
       /\ nextDebugPrompts[first].mode = "full"
       /\ \A i, j \in at :
            i < j => ModeRank[nextDebugPrompts[i].mode] < ModeRank[nextDebugPrompts[j].mode]

CompactFailureEndsRun ==
  (pc \in {"compact", "compact-corrective"} /\ RequestFailure) =>
    /\ pc' = "idle"
    /\ failure' = <<Thrown>>
    /\ nextDebugPrompts' = nextDebugPrompts

C27_RequestBound == []RequestBound /\ [][CompactFailureEndsRun]_vars

\* a run that failed on the compact-corrective request, the fourth request
\* of its week
C27_Witness ==
  /\ pc = "idle"
  /\ failure # <<>>
  /\ Len(nextDebugPrompts) > 0
  /\ nextDebugPrompts[Len(nextDebugPrompts)].mode = "compact-corrective"
  /\ Cardinality(RequestsOfWeek(nextDebugPrompts[Len(nextDebugPrompts)].week)) = 4

(***************************************************************************)
(* C26: when the non-rest rows of a table exceed the cap, the rows kept    *)
(* are exactly the cap highest-scoring non-rest rows under                 *)
(* score = 100*[long run on the long-run day] + 50*[quality keyword]       *)
(* + 25*[long] - 0.1*weekday ordinal - 0.01*row index, a row of equal      *)
(* score with the smaller index being preferred.                           *)
(***************************************************************************)
\* Monday = 0 .. Sunday = 6, unrecognized = 7
WeekdayOrdinal(dayCell) ==
  LET named == {d \in 1..7 : toLowerCase(dayCell) \in DayAliases[d]}
  IN IF named = {} THEN 7 ELSE (CHOOSE d \in named : TRUE) - 1

\* one hundred times the score of the row at 0-based index i - 1
SelectionScore(table, i, longRunDay) ==
  LET workout == toLowerCase(cell(table.rows[i], workoutIndexOf(table.headers), ""))
      w == WeekdayOrdinal(cell(table.rows[i], dayIndexOf(table.headers), ""))
      long == includes(workout, "long")
      quality == \E keyword \in {"interval", "tempo", "threshold", "hill", "speed"} :
                   includes(workout, keyword)
  IN (IF long /\ w = WeekdayOrdinal(longRunDay) THEN 10000 ELSE 0)
       + (IF quality THEN 5000 ELSE 0) + (IF long THEN 2500 ELSE 0)
       - 10 * w - (i - 1)

Outranks(table, j, i, longRunDay) ==
  \/ SelectionScore(table, j, longRunDay) > SelectionScore(table, i, longRunDay)
  \/ /\ SelectionScore(table, j, longRunDay) = SelectionScore(table, i, longRunDay)
     /\ j < i

HighestScoring(table, cap, longRunDay) ==
  {i \in NonRestRows(table) :
     Cardinality({j \in NonRestRows(table) : Outranks(table, j, i, longRunDay)}) < cap}

C26_KeepsHighestScoring ==
  clampOut # <<>> =>
    \A t \in 1..Len(clampIn) :
      Cardinality(NonRestRows(clampIn[t])) > clampCap =>
        {i \in NonRestRows(clampIn[t]) : clampOut[t].rows[i] = clampIn[t].rows[i]}
          = HighestScoring(clampIn[t], clampCap, clampLongRunDay)


(***************************************************************************)
(* C28: between weeks the response list and the history digest list have   *)
(* one entry per completed week, and a completed week contributes the      *)
(* tables of the response that was accepted for it and no others: a week   *)
(* that fell back to the compact path contributes nothing parsed from the  *)
(* abandoned full-path response.                                           *)
(***************************************************************************)
CompletedWeeks == IF pc \in RequestModes THEN expectedWeekNumber - 1 ELSE Len(partResponses)

OneEntryPerWeek ==
  /\ Len(partResponses) = CompletedWeeks
  /\ Len(historySummaries) = CompletedWeeks

\* the tables the week under request contributes when newText is accepted
ContributionsOf(newText) ==
  clampWeekToRunDayCap(normalizedTablesOf(newText, expectedWeekNumber),
                       parseRunDayCap(input.runDaysPerWeek), input.longRunDay)

WeekContributesOnce ==
  IF Len(partResponses') > Len(partResponses)
  THEN /\ pc \in RequestModes
       /\ partResponses' = Append(partResponses, text')
       /\ \E clamped \in ContributionsOf(text') :
            /\ accumulatedTables' = accumulatedTables \o clamped
            /\ historySummaries' =
                 Append(historySummaries, summarizeWeekForHistory(clamped, expectedWeekNumber))
  ELSE \/ UNCHANGED <<partResponses, accumulatedTables, historySummaries>>
       \/ /\ pc' = "auth"
          /\ partResponses' = <<>>
          /\ accumulatedTables' = <<>>
          /\ historySummaries' = <<>>

C28_ExactlyOnceAccumulation == []OneEntryPerWeek /\ [][WeekContributesOnce]_vars

\* week 1 was completed on the compact path after a full response had been
\* received and abandoned
C28_Witness ==
  /\ Len(partResponses) >= 1
  /\ \E i, j \in RequestsOfWeek(1) :
       /\ nextDebugPrompts[i].mode = "full-corrective"
       /\ nextDebugPrompts[j].mode = "compact"
  /\ accumulatedTables # <<>>


(***************************************************************************)
(* Vocabulary of the session properties                                    *)
(***************************************************************************)
\* a step in which a run returns from buildWeeklyPlan with all its weeks
RunCompletes == pc \in RequestModes /\ pc' = "idle" /\ failure' = <<>>

\* a step in which health authorization is refused
HealthRefused == pc = "auth" /\ pc' = "idle" /\ failure' = <<>>

\* a step in which a run aborts
RunAborts == pc # "idle" /\ pc' = "idle" /\ failure' # <<>>

\* a step of loadPersistedState
StorageAnswers == loadPc' # loadPc

\* `plan-${Date.now()}`
planIdAt(now) == "plan-" \o ToString(now)

\* the Date.now() a plan id was made of
createdAtOf(plan) == parseInt(SubSeq(plan.id, 6, Len(plan.id)))[1]

(***************************************************************************)
(* C21: a run that completes all its weeks adds exactly one SavedPlan, at  *)
(* the head of the list; a run that aborts or is refused permission adds   *)
(* none; the list never holds more than 12 plans; and when a 13th is added *)
(* the oldest is the one dropped.                                          *)
(***************************************************************************)
AtMostTwelve == Len(savedPlans) <= 12

SavedPlansStep ==
  IF RunCompletes
  THEN /\ Len(savedPlans') = (IF Len(savedPlans) < 12 THEN Len(savedPlans) + 1 ELSE 12)
       /\ savedPlans'[1].tables = accumulatedTables'
       /\ savedPlans'[1].response = response'
       /\ \A i \in 1..Len(savedPlans) : savedPlans[i].id # savedPlans'[1].id
       /\ Tail(savedPlans') = SubSeq(savedPlans, 1, Len(savedPlans') - 1)
       /\ Len(savedPlans) = 12 =>
            \A i \in 1..12 : createdAtOf(savedPlans[12]) <= createdAtOf(savedPlans[i])
  ELSE StorageAnswers \/ savedPlans' = savedPlans

C21_SavedPlans == []AtMostTwelve /\ [][SavedPlansStep]_vars

\* a thirteenth plan was added to twelve stored ones: it is at the head,
\* and the oldest stored plan is gone
C21_Witness ==
  /\ Len(savedPlans) = 12
  /\ savedPlans[1].id = planIdAt(SessionStart)
  /\ savedPlans[12].id = planIdAt(SessionStart - 11)


(***************************************************************************)
(* C22: generateHealthInsights is not started while an earlier invocation  *)
(* is in progress: a run is in progress only while healthLoading, which    *)
(* disables the buttons, and a run starts only when none is in progress,   *)
(* so the writes of two runs to response, planTables and debugPrompts      *)
(* never interleave.                                                       *)
(***************************************************************************)
RunInProgress == pc # "idle"

LoadingWhileRunning == RunInProgress => healthLoading

\* a step into the first await of generateHealthInsights
RunStarts == pc' = "auth" /\ (pc # "auth" \/ nextDebugPrompts # nextDebugPrompts')

StartsWhenIdle == RunStarts => ~RunInProgress /\ ~healthLoading /\ healthLoading'

C22_SingleActiveRun == []LoadingWhileRunning /\ [][StartsWhenIdle]_vars

\* a second run of the session is in progress, after one that saved a plan
C22_Witness ==
  /\ pc \in RequestModes
  /\ healthLoading
  /\ Len(savedPlans) > 0
  /\ savedPlans[1].id = planIdAt(SessionStart)


(***************************************************************************)
(* C30: whenever no generation run is in progress and activePlanId is not  *)
(* null, the planTables on display are the tables of the saved plan whose  *)
(* id is activePlanId.                                                     *)
(***************************************************************************)
C30_ActivePlanConsistency ==
  (~RunInProgress /\ activePlanId # <<>>) =>
    \E i \in 1..Len(savedPlans) :
      /\ savedPlans[i].id = activePlanId[1]
      /\ planTables = savedPlans[i].tables


(***************************************************************************)
(* C24: when health authorization is refused, an error message is set, the *)
(* run ends without fetching a health summary or issuing a generation      *)
(* request, and no SavedPlan is created; when calendar access is refused,  *)
(* an error message is set, the handler ends without the sync call, and    *)
(* the tracked synced-event ids are unchanged.                             *)
(***************************************************************************)
HealthRefusalEndsRun ==
  HealthRefused =>
    /\ error' = "Health permission was not granted."
    /\ ~healthLoading'
    /\ nextDebugPrompts' = <<>>
    /\ UNCHANGED <<savedPlans, activePlanId, input>>

\* a step in which syncPlanToCalendar ends at its first await without a
\* rejection of the call
CalendarRefused ==
  /\ calendarPc = "access"
  /\ calendarPc' = "idle"
  /\ error' = "Calendar permission was not granted."

CalendarRefusalEndsSync ==
  CalendarRefused =>
    /\ ~calendarLoading'
    /\ UNCHANGED <<syncedEventIds, calendarEvents, createdEvents>>

\* the sync call is made from the access await only, and a handler that
\* leaves that await otherwise sets an error message
SyncOnlyAfterAccess ==
  /\ calendarPc' = "sync" /\ calendarPc # "sync" => calendarPc = "access" /\ error' = error
  /\ calendarPc = "access" /\ calendarPc' = "idle" => error' # ""

C24_PermissionDenial ==
  [][HealthRefusalEndsRun /\ CalendarRefusalEndsSync /\ SyncOnlyAfterAccess]_vars

\* calendar access was refused while the events of an earlier sync are
\* tracked, in a session whose last run was not refused
C24_Witness ==
  /\ error = "Calendar permission was not granted."
  /\ calendarPc = "idle"
  /\ syncedEventIds # <<>>


(***************************************************************************)
(* C29: after any sequence of calendar syncs, removals and plan            *)
(* regenerations, the tracked synced-event id list contains the id of      *)
(* every event a sync of the session created that has not been removed.    *)
(***************************************************************************)
TrackedEventIds == {syncedEventIds[i] : i \in 1..Len(syncedEventIds)}

C29_SyncedEventsTracked == calendarPc = "idle" => calendarEvents \subseteq TrackedEventIds


(***************************************************************************)
(* C23: saveTodayCheckin writes only the entry of the key made of the      *)
(* active plan id, today's week number and today's workout day, leaves     *)
(* every other entry unchanged, and stores rpe in 1..10, soreness in 1..10 *)
(* and sleep quality in 1..5; plan generation, opening a saved plan,       *)
(* calendar sync and removal create, change and delete no entry.           *)
(***************************************************************************)
\* the week of the plan today falls in
TodayWeek ==
  LET elapsedDays == (ClockNow - parseIso(planStartDate)) \div MinutesPerDay
  IN IF elapsedDays < 0 THEN 1 ELSE (elapsedDays \div 7) + 1

\* the day cells of the rows of that week of the plan on display
TodayWeekDays ==
  UNION {LET table == planTables[t]
             dayIndex == dayIndexOf(table.headers)
             weekIndex == weekIndexOf(table.headers)
         IN IF dayIndex = 0 \/ weekIndex = 0 THEN {}
            ELSE {table.rows[r][dayIndex] :
                    r \in {q \in 1..Len(table.rows) :
                             /\ Len(table.rows[q]) >= dayIndex
                             /\ Len(table.rows[q]) >= weekIndex
                             /\ table.rows[q][weekIndex] = weekLabel(TodayWeek)}} :
         t \in 1..Len(planTables)}

TodayKeys ==
  IF activePlanId = <<>> THEN {}
  ELSE {activePlanId[1] \o ":week-" \o ToString(TodayWeek) \o ":" \o toLowerCase(day) :
          day \in TodayWeekDays}

CheckinWritesOneEntry ==
  completions' # completions /\ ~StorageAnswers =>
    /\ \E key \in TodayKeys :
         /\ DOMAIN completions' = DOMAIN completions \cup {key}
         /\ \A other \in DOMAIN completions \ {key} : completions'[other] = completions[other]
         /\ completions'[key].rpe \in 1..10
         /\ completions'[key].soreness \in 1..10
         /\ completions'[key].sleepQuality \in 1..5
    /\ UNCHANGED <<appVars, planVars, savedPlans, activePlanId, planStartDate, calendarVars>>

C23_CheckinMap == [][CheckinWritesOneEntry]_vars

\* two check-ins under different keys, one stored with soreness and sleep
\* quality cut to their upper limits
C23_Witness ==
  /\ Cardinality(DOMAIN completions) = 2
  /\ \E key \in DOMAIN completions :
       completions[key].soreness = 10 /\ completions[key].sleepQuality = 5
  /\ \E key \in DOMAIN completions :
       completions[key].soreness = 1 /\ completions[key].rpe = 6

====
